---- MODULE Spec2Model ----
(***************************************************************************)
(* The paged buffer manager of src/src/data_item/buffer.rs: the two        *)
(* implementations of the Buffer trait, LRUBuffer and ClockBuffer, over a  *)
(* map of open files.  A page's 4096 bytes are one abstract value (0 is    *)
(* the zero page get_empty_data writes); everything else follows the code  *)
(* statement by statement.  SystemTime::now() is a logical clock that      *)
(* advances by one at every call: the code only compares time stamps.      *)
(***************************************************************************)
EXTENDS Integers, Sequences, FiniteSets, TLC

\* ---------------------------------------------------------------- bounds
MaxPage == 2
MaxData == 1
MaxBuff == 2

MaxRead == 7
MaxFill == 2
MaxLen == 2000
MaxRecs == 3
MaxCnt == 4
MaxKids == 2
MaxPairs == 3
MaxVals == 2
MaxOps == 2

\* ------------------------------------------------------ program constants
NON_DATA_PAGE == 4
INIT_FILE_PAGE_NUM == 4
METADATA_FILE_PAGE_NUM == 4
KEY_SIZE == 10
NODE_KEYS_LIMIT == 199
PAGE_SIZE == 4096
\* size_of::<usize>() of the 64-bit builds.
PTR_SIZE == 8
MAX_BRANCHING_FACTOR == 200
\* The node header: node type, is_root, valid, parent pointer; the child
\* count of an internal node after it, the children after the count, and the
\* key region after the room of MAX_BRANCHING_FACTOR + 1 children.
COMMON_NODE_HEADER_SIZE == 11
INTERNAL_NODE_NUM_CHILDREN_OFFSET == COMMON_NODE_HEADER_SIZE
INTERNAL_NODE_CHILDREN_OFFSET == COMMON_NODE_HEADER_SIZE + PTR_SIZE
INTERNAL_NODE_KEY_OFFSET ==
    INTERNAL_NODE_CHILDREN_OFFSET + (MAX_BRANCHING_FACTOR + 1) * PTR_SIZE

\* src/src/test/test_buffer.rs, test_lru_algo and test_clock_algo: a buffer of
\* TestBuff pages over test.db filled up to TestFill pages, read in the order
\* TestTrace.
TestBuff == 4
TestFill == 10
TestTrace == <<2, 4, 3, 1, 5, 7, 3, 6>>

MetaFile == "metadata.db"
TestFile == "test.db"
FileNames == {MetaFile, TestFile}
PageNums == 1..MaxPage
None == -1

\* The bytes of a page: the byte ranges that were written with something
\* other than zero bytes, in the order of their offsets, each as
\* <<offset, length, what was written>>.  ZeroPage is what get_empty_data
\* gives, Whole(d) a page filled from its first to its last byte.
ZeroPage == <<>>
Whole(d) == IF d = 0 THEN ZeroPage ELSE <<<<0, PAGE_SIZE, d>>>>
Datas == {Whole(d) : d \in 0..MaxData}
\* A call that returns no page.
NoData == <<<<0, 0, 0>>>>

VARIABLES
    policy,     \* which implementation of Buffer: "LRU" or "CLOCK"
    buff_size,  \* LRUBuffer.buff_size / ClockBuffer.buff_size
    list,       \* LRUBuffer.list / ClockBuffer.list (len is Len(list))
    cur,        \* ClockBuffer.cur
    clock,      \* the last value SystemTime::now() returned
    file,       \* the HashMap file: name -> the file on disk
    ret,        \* what the last call returned
    overflow_checks, \* the build: TRUE panics on integer overflow, FALSE wraps
    acc,        \* history: the cached pages of an LRUBuffer, oldest access first
    mon,        \* history: the distinct pages read since the buffer was new
    pos,        \* history: how far the calls have followed TestTrace
    pager,      \* the Pager over test.db
    recs,       \* history: the records insert_value stored and where
    tree,       \* the BTree over the Pager
    ops,        \* history: the pairs inserted into the BTree
    node        \* a Node made from the bytes of a page

vars ==
    <<policy, buff_size, list, cur, clock, file, ret, overflow_checks,
      acc, mon, pos, pager, recs, tree, ops, node>>

\* The buffer struct an operation works on.  log is not a field of the code:
\* it lists the pages the current call has written to disk.
Self ==
    [list |-> list, cur |-> cur, clock |-> clock, file |-> file,
     buff_size |-> buff_size, overflow_checks |-> overflow_checks,
     log |-> <<>>]

Min(S) == CHOOSE x \in S : \A y \in S : x <= y
Max2(a, b) == IF a >= b THEN a ELSE b

\* Page::new(data, file_name, page_num)
Page(d, f, p) == [file_name |-> f, page_num |-> p, data |-> d]

\* A file: the u32 page count at offset 0, the other u32 words of the header
\* pages that are not zero (table: word w is the four bytes at offset 4 * w)
\* and the pages after the NON_DATA_PAGE header pages, data page n at
\* (n - 1 + NON_DATA_PAGE) * PAGE_SIZE.
File(n, t, ps) == [page_num |-> n, table |-> t, pages |-> ps]

\* read_u32 at byte offset 4 * w of the header.
Word(t, w) == IF w \in DOMAIN t THEN t[w] ELSE 0

\* k times write_u32(v) from byte offset 4 * w on.
PutWords(t, w, k, v) ==
    LET W == w..(w + k - 1)
        D == IF v = 0 THEN DOMAIN t \ W ELSE DOMAIN t \cup W
    IN [x \in D |-> IF x \in W THEN v ELSE t[x]]

\* seek to data page p and write_all one page: a seek past the end of the
\* file leaves zero bytes between the old end and the page written.
PutPage(ps, p, d) ==
    [i \in 1..Max2(Len(ps), p) |->
        IF i = p THEN d ELSE IF i <= Len(ps) THEN ps[i] ELSE ZeroPage]

\* The segments of a set, in the order of their offsets.
RECURSIVE SegSeq(_)
SegSeq(S) ==
    IF S = {} THEN <<>>
    ELSE LET m == CHOOSE x \in S : \A y \in S : x[1] <= y[1]
         IN <<m>> \o SegSeq(S \ {m})

\* write_all of len bytes v at offset off of a page with the bytes c: what
\* c had in that range is gone, what it had before and after it stays.
WriteBytes(c, off, len, v) ==
    LET Left == {<<c[i][1], off - c[i][1], c[i][3]>> :
                    i \in {j \in 1..Len(c) :
                            c[j][1] < off /\ c[j][1] + c[j][2] > off}}
        Mid == {c[i] : i \in {j \in 1..Len(c) :
                            c[j][1] + c[j][2] <= off \/ c[j][1] >= off + len}}
        Right == {<<off + len, c[i][1] + c[i][2] - (off + len), c[i][3]>> :
                    i \in {j \in 1..Len(c) :
                            c[j][1] < off + len /\ c[j][1] + c[j][2] > off + len}}
        New == IF len > 0 /\ v # 0 THEN {<<off, len, v>>} ELSE {}
    IN SegSeq(Left \cup Mid \cup Right \cup New)

\* seek and write_all of b's page data d to data page p of file f.
WriteDisk(b, f, p, d) ==
    [b EXCEPT !.file[f].pages = PutPage(@, p, d), !.log = Append(@, <<f, p>>)]

\* What a call leaves behind: the struct, the result (Ok, an Error variant,
\* or panic for an unwrap on None / an arithmetic overflow) and the data of
\* the page returned.
Done(b, res, data) == [b |-> b, res |-> res, data |-> data]

\* The first item of l for (f, p), 0 when there is none.
Item(l, f, p) ==
    LET S == {i \in 1..Len(l) :
                l[i].page.file_name = f /\ l[i].page.page_num = p}
    IN IF S = {} THEN 0 ELSE Min(S)

\* SystemTime::now(): the clock advances at every call.
Now(b) == b.clock + 1

\* ------------------------------------------------------------- LRUBuffer

\* LRUBuffer::flush_internal from item i on: every item that the file name
\* and the page number select gets, in list order, a fresh time (when
\* updated), the unwrap of its file, and its page written.  q is how many
\* writes the disk still accepts in this call: the next one fails and `?`
\* returns the error.
RECURSIVE flush_internal(_, _, _, _, _, _, _, _)
flush_internal(i, b, q, has_file_name, f, has_page_num, p, updated) ==
    IF i > Len(b.list) THEN Done(b, "Ok", NoData)
    ELSE IF (~has_file_name \/ b.list[i].page.file_name = f)
            /\ (~has_page_num \/ b.list[i].page.page_num = p)
    THEN LET b2 == IF updated
                   THEN [b EXCEPT !.list[i].time = Now(b), !.clock = Now(b)]
                   ELSE b
             pg == b.list[i].page
         IN IF pg.file_name \notin DOMAIN b.file THEN Done(b2, "panic", NoData)
            ELSE IF q = 0 THEN Done(b2, "UnexpectedError", NoData)
            ELSE flush_internal(i + 1,
                    WriteDisk(b2, pg.file_name, pg.page_num, pg.data),
                    q - 1, has_file_name, f, has_page_num, p, updated)
    ELSE flush_internal(i + 1, b, q, has_file_name, f, has_page_num, p, updated)

\* The search for the oldest item: min_time starts at now and every item
\* with a strictly smaller time takes it over.  idx is the item whose page
\* number and file name were remembered, 0 when none was.
\* MinTime with the search left out: the item at the back of the list.
MinTimeLast(l, i, min_time, idx) ==
    [min_time |-> l[Len(l)].time, idx |-> Len(l)]

RECURSIVE MinTime(_, _, _, _)
MinTime(l, i, min_time, idx) ==
    IF i > Len(l) THEN [min_time |-> min_time, idx |-> idx]
    ELSE IF min_time > l[i].time THEN MinTime(l, i + 1, l[i].time, i)
    ELSE MinTime(l, i + 1, min_time, idx)

\* get_page's loop for the reference to replace: the first item whose time
\* equals min_time (it breaks), 0 when there is none.
FirstWithTime(l, min_time) ==
    LET S == {i \in 1..Len(l) : l[i].time = min_time}
    IN IF S = {} THEN 0 ELSE Min(S)

\* write_page's loop has no break: the last item whose time equals min_time.
LastWithTime(l, min_time) ==
    LET S == {i \in 1..Len(l) : l[i].time = min_time}
    IN IF S = {} THEN 0 ELSE CHOOSE x \in S : \A y \in S : y <= x

\* push_back of a new item, len += 1.
LRUPush(b, pg) ==
    [b EXCEPT !.list = Append(@, [page |-> pg, time |-> Now(b)]),
              !.clock = Now(b)]

\* item.page = page; item.time = SystemTime::now()
LRUSet(b, k, pg) ==
    [b EXCEPT !.list[k] = [page |-> pg, time |-> Now(b)], !.clock = Now(b)]

LRU_get_page(b, f, p, q) ==
    LET h == Item(b.list, f, p) IN
    IF h # 0
    THEN Done([b EXCEPT !.list[h].time = Now(b), !.clock = Now(b)],
              "Ok", b.list[h].page.data)
    ELSE IF f \notin DOMAIN b.file THEN Done(b, "panic", NoData)
    ELSE IF p > Len(b.file[f].pages) THEN Done(b, "UnexpectedError", NoData)
    ELSE LET page == b.file[f].pages[p] IN
    IF Len(b.list) < b.buff_size
    THEN Done(LRUPush(b, Page(page, f, p)), "Ok", page)
    ELSE LET b1 == [b EXCEPT !.clock = Now(b)]
             m == MinTime(b.list, 1, Now(b), 0)
         IN
    IF m.idx = 0 THEN Done(b1, "UnexpectedError", NoData)
    ELSE LET old == b.list[m.idx].page
             w == flush_internal(1, b1, q, TRUE, old.file_name,
                                 TRUE, old.page_num, FALSE)
         IN
    IF w.res # "Ok" THEN w
    ELSE LET k == FirstWithTime(w.b.list, m.min_time) IN
    IF k = 0 THEN Done(w.b, "UnexpectedError", NoData)
    ELSE Done(LRUSet(w.b, k, Page(page, f, p)), "Ok", page)

LRU_flush(b, f, p, q) == flush_internal(1, b, q, TRUE, f, TRUE, p, TRUE)

LRU_write_page(b, f, p, d, q) ==
    LET h == Item(b.list, f, p) IN
    IF h # 0 THEN Done(LRUSet(b, h, Page(d, f, p)), "Ok", NoData)
    ELSE IF Len(b.list) < b.buff_size
    THEN Done(LRUPush(b, Page(d, f, p)), "Ok", NoData)
    ELSE LET b1 == [b EXCEPT !.clock = Now(b)]
             m == MinTime(b.list, 1, Now(b), 0)
         IN
    IF m.idx = 0 THEN Done(b1, "UnexpectedError", NoData)
    ELSE LET old == b.list[m.idx].page
             w == LRU_flush(b1, old.file_name, old.page_num, q)
         IN
    IF w.res # "Ok" THEN w
    ELSE LET k == LastWithTime(w.b.list, m.min_time) IN
    IF k = 0 THEN Done(w.b, "UnexpectedError", NoData)
    ELSE Done(LRUSet(w.b, k, Page(d, f, p)), "Ok", NoData)

LRU_flush_file(b, f, q) == flush_internal(1, b, q, TRUE, f, FALSE, 0, TRUE)

LRU_flush_all(b, q) == flush_internal(1, b, q, FALSE, "", FALSE, 0, TRUE)

\* ----------------------------------------------------------- ClockBuffer

\* The loop over the ring from cur: an item with access 1 is set to 0, the
\* first other item ends the loop as new_cur (None when the loop runs out).
\* cur counts from 0, so the item at c is list[c + 1].
\* ClockScan that leaves the access bits it passes as they are.
ClockScanKeep(b, i) ==
    LET Z == {d \in i..(b.buff_size - 1) :
                b.list[((b.cur + d) % b.buff_size) + 1].access # 1}
    IN [b |-> b,
        new_cur |-> IF Z = {} THEN None ELSE (b.cur + Min(Z)) % b.buff_size]

RECURSIVE ClockScan(_, _)
ClockScan(b, i) ==
    IF i >= b.buff_size THEN [b |-> b, new_cur |-> None]
    ELSE LET k == (b.cur + i) % b.buff_size IN
         IF b.list[k + 1].access = 1
         THEN ClockScan([b EXCEPT !.list[k + 1].access = 0], i + 1)
         ELSE [b |-> b, new_cur |-> k]

\* ClockBuffer::flush: the first item for (f, p) is written; with no such
\* item the call is a NotInBufferError.
Clock_flush(b, f, p, q) ==
    LET h == Item(b.list, f, p) IN
    IF h = 0 THEN Done(b, "NotInBufferError", NoData)
    ELSE IF f \notin DOMAIN b.file THEN Done(b, "panic", NoData)
    ELSE IF q = 0 THEN Done(b, "UnexpectedError", NoData)
    ELSE Done(WriteDisk(b, f, p, b.list[h].page.data), "Ok", NoData)

\* The miss on a full buffer, the same statements in get_page and
\* write_page: scan, move cur, flush the page at cur, then put the new item
\* there with access 1.
ClockReplace(b, pg, q, data) ==
    LET s == ClockScan(b, 0)
        b1 == [s.b EXCEPT !.cur = IF s.new_cur # None THEN s.new_cur ELSE @]
        prev_page == b1.list[b1.cur + 1].page
        w == Clock_flush(b1, prev_page.file_name, prev_page.page_num, q)
    IN IF w.res # "Ok" THEN w
       ELSE Done([w.b EXCEPT !.list[b1.cur + 1] = [page |-> pg, access |-> 1]],
                 "Ok", data)

\* push of a new item with access 1, len += 1.
ClockPush(b, pg) ==
    [b EXCEPT !.list = Append(@, [page |-> pg, access |-> 1])]

Clock_get_page(b, f, p, q) ==
    LET h == Item(b.list, f, p) IN
    IF h # 0
    THEN Done([b EXCEPT !.list[h].access = 1], "Ok", b.list[h].page.data)
    ELSE IF f \notin DOMAIN b.file THEN Done(b, "panic", NoData)
    ELSE IF p > Len(b.file[f].pages) THEN Done(b, "UnexpectedError", NoData)
    ELSE LET page == b.file[f].pages[p] IN
    IF Len(b.list) < b.buff_size
    THEN Done(ClockPush(b, Page(page, f, p)), "Ok", page)
    ELSE ClockReplace(b, Page(page, f, p), q, page)

\* write_page looks for its item by page number alone.
ItemByNum(l, p) ==
    LET S == {i \in 1..Len(l) : l[i].page.page_num = p}
    IN IF S = {} THEN 0 ELSE Min(S)

Clock_write_page(b, f, p, d, q) ==
    LET h == ItemByNum(b.list, p) IN
    IF h # 0 THEN Done([b EXCEPT !.list[h].page = Page(d, f, p)], "Ok", NoData)
    ELSE IF Len(b.list) < b.buff_size
    THEN Done(ClockPush(b, Page(d, f, p)), "Ok", NoData)
    ELSE ClockReplace(b, Page(d, f, p), q, NoData)

\* flush_file and flush_all: every selected item in list order; flush_file
\* unwraps the file of its argument, flush_all the file of the item.
RECURSIVE Clock_flush_loop(_, _, _, _, _)
Clock_flush_loop(i, b, q, has_file_name, f) ==
    IF i > Len(b.list) THEN Done(b, "Ok", NoData)
    ELSE IF ~has_file_name \/ b.list[i].page.file_name = f
    THEN LET pg == b.list[i].page IN
         IF pg.file_name \notin DOMAIN b.file THEN Done(b, "panic", NoData)
         ELSE IF q = 0 THEN Done(b, "UnexpectedError", NoData)
         ELSE Clock_flush_loop(i + 1,
                 WriteDisk(b, pg.file_name, pg.page_num, pg.data),
                 q - 1, has_file_name, f)
    ELSE Clock_flush_loop(i + 1, b, q, has_file_name, f)

Clock_flush_file(b, f, q) == Clock_flush_loop(1, b, q, TRUE, f)

Clock_flush_all(b, q) == Clock_flush_loop(1, b, q, FALSE, "")

\* ------------------------------------------- add_file and fill_up_to
\* (the same statements in both implementations)

\* add_file opens the path, creating it when absent, writes
\* INIT_FILE_PAGE_NUM zero pages over its start, sets the page count and the
\* four words after it; pages an existing file has after its header stay as
\* they are.
add_file(b, f) ==
    LET ps == IF f \in DOMAIN b.file THEN b.file[f].pages ELSE <<>>
        t == PutWords(PutWords(<<>>, 1, 1, PAGE_SIZE - (32 * NON_DATA_PAGE + 32)),
                      2, 3, PAGE_SIZE)
    IN Done([b EXCEPT !.file = (f :> File(INIT_FILE_PAGE_NUM, t, ps)) @@ @],
            "Ok", NoData)

\* write_all of zero pages over the data pages a..b (none when b < a).
ZeroPages(ps, from, to) ==
    [i \in 1..Max2(Len(ps), to) |->
        IF from <= i /\ i <= to THEN ZeroPage
        ELSE IF i <= Len(ps) THEN ps[i] ELSE ZeroPage]

\* fill_up_to's check of the count against the room in the header.
\* OutOfSize with 8 bytes for each page where the code has 32.
OutOfSizeWords(num_of_page) ==
    PAGE_SIZE < (INIT_FILE_PAGE_NUM + num_of_page + 1) * 8

OutOfSize(num_of_page) ==
    PAGE_SIZE < (INIT_FILE_PAGE_NUM + num_of_page + 1) * 32

\* fill_up_to seeks to the page the stored count names and writes
\* num_of_page - page_num + INIT_FILE_PAGE_NUM zero pages, stores the count
\* and the word after it, then writes one PAGE_SIZE word for each new page
\* from byte (1 + page_num) * 32 on.  The usize subtraction comes first: with
\* num_of_page < page_num it panics under overflow checks and wraps without
\* them, and what wraps to a negative number of pages is an allocation no
\* build can make.
fill_up_to(b, f, num_of_page) ==
    IF f \notin DOMAIN b.file THEN Done(b, "FileNotFound", NoData)
    ELSE LET page_num == b.file[f].page_num
             k == num_of_page + INIT_FILE_PAGE_NUM - page_num
         IN
    IF OutOfSize(num_of_page) THEN Done(b, "PageNumOutOfSize", NoData)
    ELSE IF num_of_page < page_num /\ (b.overflow_checks \/ k < 0)
    THEN Done(b, "panic", NoData)
    ELSE Done([b EXCEPT !.file[f] =
                 File(INIT_FILE_PAGE_NUM + num_of_page,
                      PutWords(
                        PutWords(@.table, 1, 1,
                            PAGE_SIZE - (INIT_FILE_PAGE_NUM + num_of_page + 1) * 32),
                        8 * (1 + page_num), k, PAGE_SIZE),
                      ZeroPages(@.pages, page_num - NON_DATA_PAGE + 1,
                                page_num - NON_DATA_PAGE + k))],
              "Ok", NoData)

\* Position { file_name, page_num, offset }
Position(f, i, off) == [file_name |-> f, page_num |-> i, offset |-> off]

\* insert_bytes of len bytes v (the same statements in both
\* implementations): the words at byte 32 * INIT_FILE_PAGE_NUM + i * 32, for
\* i from 0 below the stored page count, are read in turn; the first one
\* that is larger than len gets the bytes written PAGE_SIZE - res into the
\* page i pages after the header and is made smaller by len.  With no such
\* word the file is filled up to twice its page count and the call is made
\* again.
\* The word insert_bytes reads for i: the u32 at byte
\* 32 * INIT_FILE_PAGE_NUM + i * 32.
Entry(fl, i) == Word(fl.table, 8 * INIT_FILE_PAGE_NUM + 8 * i)

\* The test of a word against the length: if res > len.
\* Fits with the equal word taken as well.
FitsEqual(res, len) == res >= len

Fits(res, len) == res > len

\* The word written back: res - len.
\* Remaining that leaves the word as it was.
RemainingSame(res, len) == res

Remaining(res, len) == res - len

RECURSIVE insert_bytes(_, _, _, _)
insert_bytes(b, f, len, v) ==
    IF f \notin DOMAIN b.file THEN Done(b, "FileNotFound", NoData)
    ELSE LET page_num == b.file[f].page_num
             offset == 8 * INIT_FILE_PAGE_NUM
             Fit == {i \in 0..(page_num - 1) : Fits(Entry(b.file[f], i), len)}
         IN
    IF Fit # {}
    THEN LET i == Min(Fit)
             res == Entry(b.file[f], i)
             ps == b.file[f].pages
             old == IF i + 1 <= Len(ps) THEN ps[i + 1] ELSE ZeroPage
         IN Done([b EXCEPT
                    !.file[f].pages =
                        PutPage(@, i + 1,
                                WriteBytes(old, PAGE_SIZE - res, len, v)),
                    !.file[f].table =
                        PutWords(@, offset + 8 * i, 1, Remaining(res, len))],
                 "Ok", Position(f, i, PAGE_SIZE - res))
    ELSE LET g == fill_up_to(b, f, 2 * page_num) IN
         IF g.res # "Ok" THEN g ELSE insert_bytes(g.b, f, len, v)

\* ------------------------------------------------------ the state machine

\* LRUBuffer::new / ClockBuffer::new with no metadata file on disk: the file
\* is created with count 0 and filled up to METADATA_FILE_PAGE_NUM.
NewFile ==
    fill_up_to([file |-> (MetaFile :> File(0, <<>>, <<>>)),
                overflow_checks |-> TRUE],
               MetaFile, METADATA_FILE_PAGE_NUM).b.file

\* The results that end the process: a panic, and a thread that waits for
\* a lock it holds itself.
Stopped == {"panic", "deadlock"}

\* ret: whether the last call returned, panicked or never returns.  What a
\* call returns is the res and data of its outcome.
Returned(res, out) == [res |-> IF res \in Stopped THEN res ELSE "returned"]

\* The history variables when nothing has been called yet.
NoKey == <<>>
MonInit == [on |-> TRUE, reads |-> <<>>, wb |-> 0]
MonOff == [on |-> FALSE, reads |-> <<>>, wb |-> 0]

\* No call was made on the BTree yet.  ins: the pairs the inserts that
\* returned Ok were called with; clean: every call so far was an insert of
\* a key not inserted before, and returned Ok.
NoOps == [ins |-> {}, clean |-> TRUE]

\* No BTree was made yet.
NoTree ==
    [file_name |-> "", first_offset |-> 0,
     root |-> [node_type |-> "Unknown", parent_offset |-> 0, offset |-> 0,
               is_root |-> FALSE,
               page |-> Page([valid |-> FALSE, pairs |-> <<>>], "", 0)]]

\* No Node was made yet.
NoNode == NoTree.root

\* No Pager was made yet: Pager::new pushes (0, 0) to remain_size.
NoPager == [cnt |-> 0, max_size |-> 0, file_name |-> "", remain_size |-> <<>>]

InitBuffer ==
    /\ policy \in {"LRU", "CLOCK"}
    /\ list = <<>>
    /\ cur = 0
    /\ clock = 0
    /\ ret = Returned("Ok", NoData)
    /\ overflow_checks \in BOOLEAN
    /\ acc = <<>>
    /\ mon = MonInit
    /\ pos = 0
    /\ pager = NoPager
    /\ recs = <<>>
    /\ tree = NoTree
    /\ ops = NoOps
    /\ node = NoNode

Init ==
    /\ InitBuffer
    /\ buff_size \in 1..MaxBuff
    /\ file = NewFile

\* The time stamps of the list as their ranks: the code reads nothing of a
\* SystemTime but its order to other time stamps (>, ==), and every later
\* now() is larger than all of them.
TimeRank(l) ==
    [i \in 1..Len(l) |->
        [l[i] EXCEPT !.time =
            Cardinality({j \in 1..Len(l) : l[j].time <= l[i].time})]]

\* The (file, page number) pairs the list holds.
Keys(l) == {<<l[i].page.file_name, l[i].page.page_num>> : i \in 1..Len(l)}

\* The access history after a call that left the list l2: pages no longer
\* cached drop out, the page k the call accessed (k is NoKey when it accessed
\* none: a flush, add_file, fill_up_to, a failed call) becomes the newest.
Accessed(a, k, l2) ==
    LET Kept(x) == x \in Keys(l2) /\ x # k
        rest == SelectSeq(a, Kept)
    IN IF k # NoKey /\ k \in Keys(l2) THEN Append(rest, k) ELSE rest

\* One call of the trait: the implementation's outcome o becomes the state.
\* A panic ends the process.
Step(o, k) ==
    /\ ret.res \notin Stopped
    /\ list' = IF policy = "LRU" THEN TimeRank(o.b.list) ELSE o.b.list
    /\ cur' = o.b.cur
    /\ clock' = IF policy = "LRU" THEN Len(o.b.list) ELSE o.b.clock
    /\ file' = o.b.file
    /\ ret' = Returned(o.res, o.data)
    /\ acc' = IF policy = "LRU"
              THEN Accessed(acc, IF o.res = "Ok" THEN k ELSE NoKey, o.b.list)
              ELSE <<>>
    /\ UNCHANGED <<policy, buff_size, overflow_checks>>

\* A call of a Buffer method by a caller that is not the Pager.
Call(o, k) ==
    /\ Step(o, k)
    /\ UNCHANGED <<pager, recs, tree, ops, node>>

get_page(b, f, p, q) ==
    IF policy = "LRU" THEN LRU_get_page(b, f, p, q) ELSE Clock_get_page(b, f, p, q)

write_page(b, f, p, d, q) ==
    IF policy = "LRU" THEN LRU_write_page(b, f, p, d, q)
    ELSE Clock_write_page(b, f, p, d, q)

flush(b, f, p, q) ==
    IF policy = "LRU" THEN LRU_flush(b, f, p, q) ELSE Clock_flush(b, f, p, q)

flush_file(b, f, q) ==
    IF policy = "LRU" THEN LRU_flush_file(b, f, q) ELSE Clock_flush_file(b, f, q)

flush_all(b, q) ==
    IF policy = "LRU" THEN LRU_flush_all(b, q) ELSE Clock_flush_all(b, q)

\* q: the number of page writes the disk accepts during the call, the next
\* one fails.  get_page, write_page and flush write one page at most,
\* flush_file and flush_all no more pages than the list holds.
Quota1 == 0..1
Quota == 0..buff_size

\* add_file is called once for a path, as the callers in src do.
AddFile ==
    /\ \E f \in FileNames \ DOMAIN file : Call(add_file(Self, f), NoKey)
    /\ UNCHANGED <<mon, pos>>

FillUpTo ==
    /\ \E f \in FileNames, n \in PageNums :
            Call(fill_up_to(Self, f, n), NoKey)
    /\ UNCHANGED <<mon, pos>>

GetPage ==
    /\ \E f \in FileNames, p \in PageNums, q \in Quota1 :
            Call(get_page(Self, f, p, q), <<f, p>>)
    /\ UNCHANGED <<mon, pos>>

WritePage ==
    /\ \E f \in FileNames, p \in PageNums, d \in Datas, q \in Quota1 :
            Call(write_page(Self, f, p, d, q), <<f, p>>)
    /\ UNCHANGED <<mon, pos>>

Flush ==
    /\ \E f \in FileNames, p \in PageNums, q \in Quota1 :
            Call(flush(Self, f, p, q), NoKey)
    /\ UNCHANGED <<mon, pos>>

FlushFile ==
    /\ \E f \in FileNames, q \in Quota : Call(flush_file(Self, f, q), NoKey)
    /\ UNCHANGED <<mon, pos>>

FlushAll ==
    /\ \E q \in Quota : Call(flush_all(Self, q), NoKey)
    /\ UNCHANGED <<mon, pos>>

Next ==
    \/ AddFile
    \/ FillUpTo
    \/ GetPage
    \/ WritePage
    \/ Flush
    \/ FlushFile
    \/ FlushAll

Spec == Init /\ [][Next]_vars

\* ------------------------------------- the replacement tests' state machine
\* test_lru_algo / test_clock_algo: new(n, "metadata.db"), add_file("test.db"),
\* fill_up_to("test.db", TestFill), then nothing but get_page("test.db", p).

TestFiles ==
    fill_up_to(add_file([file |-> NewFile, overflow_checks |-> TRUE],
                        TestFile).b,
               TestFile, TestFill).b.file

InitReads ==
    /\ InitBuffer
    /\ buff_size \in 1..TestBuff
    /\ file = TestFiles

\* How often the call with outcome o wrote page k to disk.
Written(o, k) == Cardinality({i \in 1..Len(o.b.log) : o.b.log[i] = k})

\* mon follows the calls while each is a successful get_page of a page not
\* read before, up to buff_size + 1 of them, and counts the writes to disk
\* of the page read first.
MonStep(m, p, o) ==
    IF ~m.on \/ o.res # "Ok" \/ Len(m.reads) > buff_size
       \/ p \in {m.reads[i] : i \in 1..Len(m.reads)}
    THEN MonOff
    ELSE [on |-> TRUE, reads |-> Append(m.reads, p),
          wb |-> m.wb + IF m.reads = <<>> THEN 0
                        ELSE Written(o, <<TestFile, m.reads[1]>>)]

\* pos counts the calls while they are the reads of TestTrace, in order.
PosStep(n, p, o) ==
    IF n # None /\ n < Len(TestTrace) /\ o.res = "Ok" /\ p = TestTrace[n + 1]
    THEN n + 1 ELSE None

\* The tests run on a disk that accepts every write.
ReadPage ==
    \E p \in 1..MaxRead :
        LET o == get_page(Self, TestFile, p, 1) IN
        /\ Call(o, <<TestFile, p>>)
        /\ mon' = MonStep(mon, p, o)
        /\ pos' = PosStep(pos, p, o)

NextReads == ReadPage

SpecReads == InitReads /\ [][NextReads]_vars

\* ------------------------------------ the file operations' state machine
\* add_file, fill_up_to and insert_bytes on test.db, the cache left empty.

\* The largest count the check in fill_up_to lets pass.
FillLimit == PAGE_SIZE \div 32 - INIT_FILE_PAGE_NUM - 1

\* The counts fill_up_to is called with: small ones, the tests' count, and
\* the counts about the limit of the code and the limit (* 8) of the
\* format's description.
FillNums ==
    (1..MaxFill) \cup {TestFill, TestFill + MaxFill, FillLimit, FillLimit + 1,
                       PAGE_SIZE \div 8 - INIT_FILE_PAGE_NUM - 1,
                       PAGE_SIZE \div 8 - INIT_FILE_PAGE_NUM}

\* The lengths insert_bytes is called with.
Lens == {MaxLen, PAGE_SIZE - MaxLen, PAGE_SIZE - 1, PAGE_SIZE}

\* The number of byte ranges written to the pages ps.
Ranges(ps) ==
    Cardinality(UNION {{<<i, k>> : k \in 1..Len(ps[i])} : i \in 1..Len(ps)})

InitFile ==
    /\ InitBuffer
    /\ buff_size = 1
    /\ file = NewFile

FillFile ==
    /\ \E n \in FillNums : Call(fill_up_to(Self, TestFile, n), NoKey)
    /\ UNCHANGED <<mon, pos>>

InsertBytes ==
    /\ TestFile \in DOMAIN file => Ranges(file[TestFile].pages) < MaxRecs
    /\ \E len \in Lens, v \in 1..MaxData :
            Call(insert_bytes(Self, TestFile, len, v), NoKey)
    /\ UNCHANGED <<mon, pos>>

NextFile ==
    \/ AddFile
    \/ FillFile
    \/ InsertBytes

SpecFile == InitFile /\ [][NextFile]_vars

\* ------------------------------------------------------------------ Pager
\* The Pager's methods take the Pager pg and the buffer b they are called
\* with; what they leave behind is both, the result and the value returned.

\* get_new_page's test: if self.cnt >= self.max_size.
CntReached(cnt, max_size) == cnt >= max_size

\* The counter after get_new_page's self.cnt += 1.
\* NextCnt that passes a number over.
NextCntSkip(cnt) == cnt + 2

NextCnt(cnt) == cnt + 1

PDone(pg, b, res, data) == [pg |-> pg, b |-> b, res |-> res, data |-> data]

\* Pager::fill_up_to: max_size is set, then the buffer fills the file.
Pager_fill_up_to(pg, b, num_of_page) ==
    LET o == fill_up_to(b, pg.file_name, num_of_page)
    IN PDone([pg EXCEPT !.max_size = num_of_page], o.b, o.res, NoData)

\* Pager::new: (0, 0) for the page 0 that is never handed out, then
\* fill_up_to(max_size); an error of it and no Pager is returned.
Pager_new(f, max_size, b) ==
    LET o == Pager_fill_up_to([cnt |-> 0, max_size |-> max_size, file_name |-> f,
                               remain_size |-> <<<<0, 0>>>>], b, max_size)
    IN IF o.res = "Ok" THEN o ELSE PDone(NoPager, o.b, o.res, NoData)

\* Pager::get_page: the Page the buffer returns.
Pager_get_page(pg, b, page_num, q) ==
    LET o == get_page(b, pg.file_name, page_num, q)
    IN PDone(pg, o.b, o.res, Page(o.data, pg.file_name, page_num))

\* Pager::write_page
Pager_write_page(pg, b, page, q) ==
    LET o == write_page(b, page.file_name, page.page_num, page.data, q)
    IN PDone(pg, o.b, o.res, NoData)

\* The end of get_new_page: after the fill, if any, has returned o, cnt is
\* incremented, (PAGE_SIZE, 0) pushed and the page cnt fetched.
Allocated(o, q) ==
    IF o.res # "Ok" THEN o
    ELSE Pager_get_page([o.pg EXCEPT !.cnt = NextCnt(@),
                                     !.remain_size = Append(@, <<PAGE_SIZE, 0>>)],
                        o.b, NextCnt(o.pg.cnt), q)

\* Pager::get_new_page: the file is filled up to twice max_size when cnt
\* has reached it.
get_new_page(pg, b, q) ==
    Allocated(IF CntReached(pg.cnt, pg.max_size)
              THEN Pager_fill_up_to(pg, b, 2 * pg.max_size)
              ELSE PDone(pg, b, "Ok", NoData),
              q)

\* The end of insert_value: after write_page has returned w, the page's
\* remaining capacity and next offset are recorded and the record's global
\* offset returned.
Recorded(w, i, remain, offset) ==
    IF w.res # "Ok" THEN w
    ELSE PDone([w.pg EXCEPT !.remain_size[i + 1] = remain], w.b, "Ok", offset)

\* The middle of insert_value: the bytes are written into the page g that
\* get_page or get_new_page returned, at offset, and the page is written to
\* the buffer.
Placed(g, i, siz, offset, len, v, q) ==
    IF g.res # "Ok" THEN PDone(g.pg, g.b, g.res, NoData)
    ELSE Recorded(Pager_write_page(g.pg, g.b,
                                   [g.data EXCEPT !.data = WriteBytes(@, offset, len, v)],
                                   q),
                  i, <<siz - len, offset + len>>, offset + (i - 1) * PAGE_SIZE)

\* The page get_new_page returned is page cnt, empty.
PlacedNew(n, len, v, q) == Placed(n, n.pg.cnt, PAGE_SIZE, 0, len, v, q)

\* Pager::insert_value of len bytes v: the first page after page 0 whose
\* remaining capacity is larger than len takes them, or else a new page.
\* remain_size[i] of the code is remain_size[i + 1] here.
insert_value(pg, b, len, v, q) ==
    LET Fit == {i \in 1..(Len(pg.remain_size) - 1) : pg.remain_size[i + 1][1] > len}
    IN IF Fit # {}
       THEN Placed(Pager_get_page(pg, b, Min(Fit), q), Min(Fit),
                   pg.remain_size[Min(Fit) + 1][1], pg.remain_size[Min(Fit) + 1][2],
                   len, v, q)
       ELSE PlacedNew(get_new_page(pg, b, q), len, v, q)

\* The bytes of page c from off to off + len, as a page content of its own.
Slice(c, off, len) ==
    SegSeq({<<Max2(c[i][1], off) - off,
              Min({c[i][1] + c[i][2], off + len}) - Max2(c[i][1], off),
              c[i][3]>> :
                i \in {j \in 1..Len(c) :
                        c[j][1] < off + len /\ c[j][1] + c[j][2] > off}})

\* The end of get_value: the bytes of the page g from page_offset; a range
\* that passes the end of the page panics.
Sliced(g, page_offset, size) ==
    IF g.res # "Ok" THEN PDone(g.pg, g.b, g.res, NoData)
    ELSE IF page_offset + size > PAGE_SIZE
    THEN PDone(g.pg, g.b, "panic", NoData)
    ELSE PDone(g.pg, g.b, "Ok", Slice(g.data.data, page_offset, size))

\* Pager::get_value: page offset / PAGE_SIZE + 1, from offset % PAGE_SIZE.
get_value(pg, b, offset, size, q) ==
    Sliced(Pager_get_page(pg, b, offset \div PAGE_SIZE + 1, q),
           offset % PAGE_SIZE, size)

\* ------------------------------------------- the Pager's state machine
\* A buffer with test.db added, the Pager made over it, its calls, and reads
\* of metadata.db pages by the buffer's other callers.

\* The max_size values Pager::new is called with.
MaxSizes == {0, INIT_FILE_PAGE_NUM}

\* The lengths insert_value is called with.
PagerLens == {MaxLen, PAGE_SIZE - MaxLen}

InitPager ==
    /\ InitBuffer
    /\ buff_size \in 1..MaxBuff
    /\ file = add_file([file |-> NewFile], TestFile).b.file

PagerCall(o) ==
    /\ Step(o, NoKey)
    /\ pager' = o.pg
    /\ UNCHANGED <<mon, pos, tree, ops, node>>

PagerNew ==
    /\ pager = NoPager
    /\ \E m \in MaxSizes : PagerCall(Pager_new(TestFile, m, Self))
    /\ UNCHANGED recs

PagerFillUpTo ==
    /\ pager # NoPager
    /\ pager.max_size < MaxCnt
    /\ PagerCall(Pager_fill_up_to(pager, Self, pager.max_size + 1))
    /\ UNCHANGED recs

GetNewPage ==
    /\ pager # NoPager
    /\ pager.cnt < MaxCnt
    /\ \E q \in Quota1 : PagerCall(get_new_page(pager, Self, q))
    /\ UNCHANGED recs

InsertValue ==
    /\ pager # NoPager
    /\ pager.cnt < MaxCnt
    /\ Len(recs) < MaxVals
    /\ \E len \in PagerLens, q \in Quota1 :
        LET o == insert_value(pager, Self, len, Len(recs) + 1, q) IN
            /\ PagerCall(o)
            /\ recs' = IF o.res = "Ok"
                       THEN Append(recs, <<o.data, len, Len(recs) + 1>>)
                       ELSE recs

GetValue ==
    /\ pager # NoPager
    /\ \E r \in 1..Len(recs), q \in Quota1 :
            PagerCall(get_value(pager, Self, recs[r][1], recs[r][2], q))
    /\ UNCHANGED recs

ReadMeta ==
    /\ \E p \in PageNums, q \in Quota1 : Call(get_page(Self, MetaFile, p, q), NoKey)
    /\ UNCHANGED <<mon, pos>>

NextPager ==
    \/ PagerNew
    \/ PagerFillUpTo
    \/ GetNewPage
    \/ InsertValue
    \/ GetValue
    \/ ReadMeta

SpecPager == InitPager /\ [][NextPager]_vars

\* ------------------------------------------------------------------ BTree
\* A key is a sequence of at most KEY_SIZE bytes that are not NUL.  A node
\* page is its header (node_type, is_root, parent_offset, valid) and, for a
\* leaf, the sibling offsets next and prev, the (key slot, value) pairs it
\* stores, whose number is the page's pair count, and in stale the slots after
\* them that are not zero; for an internal node, the key slots and the
\* children, whose number is the page's child count.

\* A slot of KEY_SIZE zero bytes.
ZeroSlot == [i \in 1..KEY_SIZE |-> 0]

\* write_bytes_at_offset of a key into a slot that holds raw: the bytes of
\* the slot after the key's stay.
Over(raw, key) == key \o SubSeq(raw, Len(key) + 1, Len(raw))

\* The page of zeros as a node reads it: no node type, not valid, no pair.
ZeroNode ==
    [node_type |-> "Unknown", is_root |-> FALSE, parent_offset |-> 0,
     valid |-> FALSE, next |-> 0, prev |-> 0, pairs |-> <<>>, stale |-> <<>>]

\* The bytes of a page as a node reads them.
NodeData(d) == IF DOMAIN d = {} THEN ZeroNode ELSE d

\* String's Ord: a < b byte by byte, a prefix before what it is a prefix of.
StrLess(a, b) ==
    \E i \in 1..Len(b) :
        /\ i <= Len(a) + 1
        /\ \A j \in 1..(i - 1) : a[j] = b[j]
        /\ (i = Len(a) + 1 \/ a[i] < b[i])

\* write_bytes_at_offset of a key into its zeroed slot of KEY_SIZE bytes.
Pad(key) == key \o [i \in 1..(KEY_SIZE - Len(key)) |-> 0]

\* str::trim_matches(NUL): the NULs before and after the other bytes go.
TrimTo(raw, I) ==
    IF I = {} THEN <<>>
    ELSE SubSeq(raw, Min(I), CHOOSE i \in I : \A j \in I : j <= i)

Trim(raw) == TrimTo(raw, {i \in 1..Len(raw) : raw[i] # 0})

KeyValuePair(key, value) == [key |-> key, value |-> value]

\* The one value of a set of one value.
Once(S) == CHOOSE x \in S : TRUE

NDone(n, res, data) == [n |-> n, res |-> res, data |-> data]

\* Node::new as BTree::new calls it: the node of the page, which is then an
\* empty leaf.
Node_new(node_type, parent_offset, offset, is_root, page) ==
    [node_type |-> node_type, parent_offset |-> parent_offset,
     offset |-> offset, is_root |-> is_root,
     page |-> [page EXCEPT !.data =
                    [node_type |-> node_type, is_root |-> is_root,
                     parent_offset |-> parent_offset, valid |-> TRUE,
                     next |-> 0, prev |-> 0, pairs |-> <<>>, stale |-> <<>>]]]

\* Node::new of node.rs, which takes the valid flag too: the node over the
\* page as it is, nothing is written to it.
Node_new6(node_type, parent_offset, offset, is_root, page, valid) ==
    [node_type |-> node_type, parent_offset |-> parent_offset,
     offset |-> offset, is_root |-> is_root,
     page |-> [page EXCEPT !.data = NodeData(@)]]

\* Page::new_phantom
new_phantom(data) == Page(data, "", 0)

\* TryFrom<NodeSpec> for Node: the node the bytes of a page describe; no
\* node when the node type byte is neither Internal nor Leaf.
Node_try_from(page_data, offset) ==
    LET d == NodeData(page_data) IN
    IF d.node_type = "Unknown" THEN NDone(ZeroNode, "UnexpectedError", NoData)
    ELSE NDone(Node_new6(d.node_type, d.parent_offset, offset, d.is_root,
                         new_phantom(d), d.valid),
               "Ok", NoData)

\* num_children - 1 of a node with no child: a panic where overflow is
\* checked; elsewhere the loop over usize::MAX keys leaves the page and
\* get_ptr_from_offset panics.
NoChild(n) == Len(n.page.data.children) = 0

\* Node::get_keys: the keys of the slots, trimmed; an internal node has one
\* key less than children.
get_keys(n) ==
    IF n.node_type = "Leaf"
    THEN NDone(n, "Ok", [i \in 1..Len(n.page.data.pairs) |->
                            Trim(n.page.data.pairs[i][1])])
    ELSE IF n.node_type = "Internal"
    THEN IF NoChild(n) THEN NDone(n, "panic", <<>>)
         ELSE NDone(n, "Ok", [i \in 1..(Len(n.page.data.children) - 1) |->
                                 Trim(n.page.data.keys[i])])
    ELSE NDone(n, "UnexpectedError", <<>>)

\* Node::get_children
get_children(n) ==
    IF n.node_type = "Internal" THEN NDone(n, "Ok", n.page.data.children)
    ELSE NDone(n, "UnexpectedError", <<>>)

\* Node::get_key_value_pairs: nothing of a page that is not valid.
get_key_value_pairs(n) ==
    IF n.node_type # "Leaf" \/ ~n.page.data.valid
    THEN NDone(n, "UnexpectedError", <<>>)
    ELSE NDone(n, "Ok", [i \in 1..Len(n.page.data.pairs) |->
                            KeyValuePair(Trim(n.page.data.pairs[i][1]),
                                         n.page.data.pairs[i][2])])

\* Node::get_keys_len
get_keys_len(n) ==
    IF n.node_type # "Leaf" THEN NDone(n, "UnexpectedError", 0)
    ELSE NDone(n, "Ok", Len(n.page.data.pairs))

\* Node::add_key_value_pair: the pair goes after the last one, into the slot
\* the pair count points at.  A key longer than its slot makes
\* clone_from_slice panic.
add_key_value_pair(n, kv) ==
    IF n.node_type # "Leaf" THEN NDone(n, "UnexpectedError", NoData)
    ELSE IF Len(kv.key) > KEY_SIZE THEN NDone(n, "panic", NoData)
    ELSE IF n.page.data.stale = <<>>
    THEN NDone([n EXCEPT !.page.data.pairs = Append(@, <<Pad(kv.key), kv.value>>)],
               "Ok", NoData)
    ELSE NDone([n EXCEPT !.page.data.pairs =
                            Append(@, <<Over(n.page.data.stale[1][1], kv.key),
                                        kv.value>>),
                         !.page.data.stale = Tail(@)],
               "Ok", NoData)

\* The bytes of an internal node's page.  head is the bytes from
\* INTERNAL_NODE_NUM_CHILDREN_OFFSET on: the child count, the children, and
\* after them the key slots get_keys and update_internal_key read; region is
\* the bytes from INTERNAL_NODE_KEY_OFFSET on, where add_key_and_left_child,
\* add_child and Node::split read and write keys.  Both without the zero
\* bytes at their end; offsets into them count from 0.
ByteAt(s, k) == IF k + 1 \in 1..Len(s) THEN s[k + 1] ELSE 0

\* The function f of 1..n as a sequence of its values.
Seq1(f) == SubSeq(f, 1, Len(f))

BytesAt(s, off, len) ==
    Once({Seq1([i \in 1..len |-> ByteAt(t, off + i - 1)]) : t \in {s}})

TrimZeros(s) ==
    LET I == {i \in 1..Len(s) : s[i] # 0}
    IN IF I = {} THEN <<>> ELSE SubSeq(s, 1, CHOOSE i \in I : \A j \in I : j <= i)

\* usize::to_be_bytes, of a value below 2^31.
to_be_bytes(v) ==
    Seq1([i \in 1..PTR_SIZE |->
            IF i <= PTR_SIZE - 4 THEN 0 ELSE (v \div 256 ^ (PTR_SIZE - i)) % 256])

\* get_value_from_offset: the usize of PTR_SIZE bytes, big end first.
RECURSIVE Value(_)
Value(bs) ==
    IF bs = <<>> THEN 0 ELSE Value(SubSeq(bs, 1, Len(bs) - 1)) * 256 + bs[Len(bs)]

RECURSIVE Flat(_)
Flat(ss) == IF ss = <<>> THEN <<>> ELSE Head(ss) \o Flat(Tail(ss))

\* The page of a node made over a page of zeros has no child and no key.
Inner(d) == d @@ [children |-> <<>>, keys |-> <<>>, region |-> <<>>]

HeadOf(d) ==
    to_be_bytes(Len(d.children))
        \o Flat([i \in 1..Len(d.children) |-> to_be_bytes(d.children[i])])
        \o Flat(d.keys)

\* The page d with the bytes head and region.
PageOf(d, head, region) ==
    Once({[d EXCEPT
            !.children = Seq1([i \in 1..nc |->
                                Value(BytesAt(h, i * PTR_SIZE, PTR_SIZE))]),
            !.keys = Seq1([i \in 1..Max2(nc - 1,
                                         (Len(h) - (nc + 1) * PTR_SIZE + KEY_SIZE - 1)
                                            \div KEY_SIZE) |->
                            BytesAt(h, (nc + 1) * PTR_SIZE + (i - 1) * KEY_SIZE,
                                    KEY_SIZE)]),
            !.region = TrimZeros(region)] :
        h \in {TrimZeros(head)}, nc \in {Value(BytesAt(head, 0, PTR_SIZE))}})

\* write_bytes_at_offset of bytes no longer than size: they go over the
\* bytes from offset on.
write_bytes_at_offset(s, bytes, offset) ==
    Once({Seq1([k \in 1..Max2(Len(t), offset + Len(bytes)) |->
                    IF k > offset /\ k <= offset + Len(bytes) THEN bytes[k - offset]
                    ELSE ByteAt(t, k - 1)]) : t \in {s}})

\* insert_bytes_at_offset of size bytes: the bytes from offset to
\* end_offset, both included, move size bytes on, then bytes goes to offset.
insert_bytes_at_offset(s, bytes, offset, end_offset, size) ==
    Once({Seq1([k \in 1..Max2(Max2(Len(t), end_offset + size + 1), offset + size) |->
                    IF k > offset /\ k <= offset + size THEN bytes[k - offset]
                    ELSE IF k > offset + size /\ k <= end_offset + size + 1
                    THEN ByteAt(t, k - 1 - size)
                    ELSE ByteAt(t, k - 1)]) : t \in {s}})

\* if key_num < child_num, key_num being the usize read at
\* INTERNAL_NODE_KEY_OFFSET.
KeyNumLess(region, child_num) ==
    /\ \A i \in 0..(PTR_SIZE - 4) : ByteAt(region, i) < 128
    /\ \A i \in 0..(PTR_SIZE - 5) : ByteAt(region, i) = 0
    /\ Value(BytesAt(region, 0, PTR_SIZE)) < child_num

\* Node::add_child: the child count plus one is written to the first child
\* slot, the child to the slot after the last child; the count stays.
add_child(n, child_offset) ==
    IF n.node_type # "Internal" THEN NDone(n, "UnexpectedError", NoData)
    ELSE LET d == Inner(n.page.data)
             child_num == Len(d.children)
         IN
    IF KeyNumLess(d.region, child_num) THEN NDone(n, "UnexpectedError", NoData)
    ELSE NDone([n EXCEPT !.page.data =
                    PageOf(d,
                           write_bytes_at_offset(
                               write_bytes_at_offset(HeadOf(d), to_be_bytes(child_num + 1),
                                                     PTR_SIZE),
                               to_be_bytes(child_offset),
                               PTR_SIZE + PTR_SIZE * child_num),
                           d.region)],
               "Ok", NoData)

\* The key slots of the region, as many as lie within the page, up to the
\* first one after its last byte that is not zero: the slots after that one
\* hold the same zeros.
RegionSlots(region) ==
    0..Min({(PAGE_SIZE - INTERNAL_NODE_KEY_OFFSET) \div KEY_SIZE - 1,
            (Len(region) + KEY_SIZE - 1) \div KEY_SIZE})

\* if iter_key.to_owned() > key, for the slot i of the region.
SlotAfter(region, i, key) == StrLess(key, BytesAt(region, i * KEY_SIZE, KEY_SIZE))

\* add_key_and_left_child once the place is found: the key is inserted at
\* key_at of the region, the child at child_at of the head that has the new
\* count already.  insert_bytes_at_offset panics in clone_from_slice when
\* the key is not KEY_SIZE bytes long.
KeyAndChildAt(n, d, nc, key, left_child_offset, key_at, end_key_data, child_at) ==
    IF INTERNAL_NODE_KEY_OFFSET + end_key_data + KEY_SIZE > PAGE_SIZE
    THEN NDone(n, "UnexpectedError", NoData)
    ELSE IF Len(key) # KEY_SIZE THEN NDone(n, "panic", NoData)
    ELSE NDone([n EXCEPT !.page.data =
                    PageOf(d,
                           insert_bytes_at_offset(
                               write_bytes_at_offset(HeadOf(d), to_be_bytes(nc + 1), 0),
                               to_be_bytes(left_child_offset),
                               child_at, PTR_SIZE + nc * PTR_SIZE, PTR_SIZE),
                           insert_bytes_at_offset(d.region, key, key_at, end_key_data,
                                                  KEY_SIZE))],
               "Ok", NoData)

\* Node::add_key_and_left_child.  The count plus one is written, then the
\* first of the count - 1 key slots of the region whose key is after key is
\* looked for: the key goes there and the child to the child slot of that
\* index; with no such slot the key goes after the last key and the child
\* KEY_SIZE bytes before the end of the children.  With no child the
\* count - 1 panics where overflow is checked; elsewhere it wraps, every
\* slot of the page is looked at, and get_ptr_from_offset panics after the
\* last one.
add_key_and_left_child(n, key, left_child_offset) ==
    IF n.node_type # "Internal" THEN NDone(n, "UnexpectedError", NoData)
    ELSE IF NoChild(n) /\ overflow_checks THEN NDone(n, "panic", NoData)
    ELSE Once({
        IF nc = 0 /\ After = {} THEN NDone(n, "panic", NoData)
        ELSE KeyAndChildAt(n, Inner(n.page.data), nc, key, left_child_offset,
                           IF After # {} THEN Min(After) * KEY_SIZE
                           ELSE (nc - 1) * KEY_SIZE,
                           IF nc = 0 THEN 0 - KEY_SIZE ELSE (nc - 1) * KEY_SIZE,
                           IF After # {} THEN PTR_SIZE + Min(After) * PTR_SIZE
                           ELSE PTR_SIZE + nc * PTR_SIZE - KEY_SIZE) :
            nc \in {Len(Inner(n.page.data).children)},
            After \in {{i \in (IF NoChild(n) THEN RegionSlots(Inner(n.page.data).region)
                                ELSE 0..(Len(Inner(n.page.data).children) - 2)) :
                            SlotAfter(Inner(n.page.data).region, i, key)}}})

\* if key == old_key, on the bytes of the slot.
SlotIs(raw, old_key) == raw = old_key

\* Node::update_internal_key: new_key is written over the first key slot
\* that is old_key.
update_internal_key(n, old_key, new_key) ==
    IF n.node_type # "Internal" THEN NDone(n, "UnexpectedError", NoData)
    ELSE IF NoChild(n) THEN NDone(n, "panic", NoData)
    ELSE LET ks == n.page.data.keys
             I == {i \in 1..(Len(n.page.data.children) - 1) : SlotIs(ks[i], old_key)}
         IN IF I = {} THEN NDone(n, "KeyNotFound", NoData)
            ELSE NDone([n EXCEPT !.page.data.keys[Min(I)] = Over(@, Trim(new_key))],
                       "Ok", NoData)

\* The key of a slot as update_value compares it with kv.key.
SlotKey(raw) == raw

\* Node::update_value: the value of the first slot whose key is kv.key.
update_value(n, kv) ==
    IF n.node_type # "Leaf" THEN NDone(n, "KeyNotFound", NoData)
    ELSE IF ~n.page.data.valid THEN NDone(n, "UnexpectedError", NoData)
    ELSE LET ps == n.page.data.pairs
             I == {i \in 1..Len(ps) : SlotKey(ps[i][1]) = kv.key}
         IN IF I = {} THEN NDone(n, "KeyNotFound", NoData)
            ELSE NDone([n EXCEPT !.page.data.pairs[Min(I)][2] = kv.value],
                       "Ok", NoData)

\* Vec::sort of key-value pairs: by key, pairs of one key in the order they
\* had.
sort(kvs) ==
    LET Rank(i) == Cardinality({j \in 1..Len(kvs) :
                        \/ StrLess(kvs[j].key, kvs[i].key)
                        \/ (kvs[j].key = kvs[i].key /\ j <= i)})
    IN [r \in 1..Len(kvs) |-> kvs[CHOOSE i \in 1..Len(kvs) : Rank(i) = r]]

\* write_bytes_at_offset of a pair count c that is no more than the page's:
\* the slots after the first c are no longer pairs of the leaf.
SetCount(n, c) ==
    LET all == n.page.data.pairs \o n.page.data.stale IN
    [n EXCEPT !.page.data.pairs = SubSeq(all, 1, c),
              !.page.data.stale = SubSeq(all, c + 1, Len(all))]

\* add_key_value_pair for each pair of kvs in turn, up to the first error.
RECURSIVE AddAll(_, _)
AddRest(a, rest) == IF a.res # "Ok" THEN a ELSE AddAll(a.n, rest)

AddAll(n, kvs) ==
    IF kvs = <<>> THEN NDone(n, "Ok", NoData)
    ELSE AddRest(add_key_value_pair(n, Head(kvs)), Tail(kvs))

\* Node::split takes the node n, the Pager pg and the buffer b.
SDone(n, pg, b, res, data) == [n |-> n, pg |-> pg, b |-> b, res |-> res, data |-> data]

\* What BTree::split_node reads of Node::split's result: whether the node
\* was split, and the offset of the new left node.  left and mid_key are
\* the left leaf and the key for the parent that Node::split made.
SplitResult(left, mid_key) ==
    [is_split |-> TRUE, offset |-> left.offset, left |-> left, mid_key |-> mid_key]

\* Node::split of a leaf that is not the root, from the parent's page on:
\* the key of the pair at mid goes to a copy of the parent with the left
\* leaf's offset, the page's pair count becomes the number of pairs from mid
\* on, and these are added to the page.
SplitRight(n, kvs, mid, left, gp, p) ==
    IF p.res # "Ok" THEN SDone(n, gp.pg, gp.b, p.res, NoData)
    ELSE IF mid + 1 > Len(kvs) THEN SDone(n, gp.pg, gp.b, "panic", NoData)
    ELSE Once({
        IF a.res # "Ok" THEN SDone(n, gp.pg, gp.b, a.res, NoData)
        ELSE Once({SDone(r.n, gp.pg, gp.b, r.res,
                         IF r.res = "Ok" THEN SplitResult(left, kvs[mid + 1].key)
                         ELSE NoData) :
                    r \in {AddAll(SetCount(n, Len(kvs) - mid),
                                  SubSeq(kvs, mid + 1, Len(kvs)))}}) :
            a \in {add_key_and_left_child(p.n, kvs[mid + 1].key, left.offset)}})

\* Node::split of a leaf that is not the root, from the new page g on: the
\* pairs before mid are added to the left leaf over g, then the parent's
\* page is fetched, which must not fail.
SplitLeft(n, kvs, mid, g, q) ==
    IF g.res # "Ok" THEN SDone(n, g.pg, g.b, g.res, NoData)
    ELSE LET left == AddAll(Node_new6("Leaf", n.parent_offset, g.data.page_num,
                                      FALSE, g.data, TRUE),
                            SubSeq(kvs, 1, mid))
             gp == Pager_get_page(g.pg, g.b, n.parent_offset \div PAGE_SIZE, q)
         IN
    IF left.res # "Ok" THEN SDone(n, g.pg, g.b, left.res, NoData)
    ELSE IF gp.res # "Ok" THEN SDone(n, gp.pg, gp.b, "panic", NoData)
    ELSE SplitRight(n, kvs, mid, left.n, gp,
                    Node_try_from(gp.data.data, n.parent_offset))

\* Node::split of the leaf n whose pairs, sorted, are kvs.
SplitLeaf(n, kv, pg, b, q) ==
    IF kv.res # "Ok" THEN SDone(n, pg, b, kv.res, NoData)
    ELSE SplitLeft(n, sort(kv.data), Len(kv.data) \div 2, get_new_page(pg, b, q), q)

\* Node::split's loops over the keys of an internal node with the page d:
\* for i from `from` below `to`, the key slot at key_at of the bytes keys
\* and the child children.get(i - back) are added to the node m; key_at
\* moves on by KEY_SIZE.
RECURSIVE AddKeys(_, _, _, _, _, _, _)
AddKeys(m, keys, children, from, to, back, key_at) ==
    IF from >= to THEN NDone(m, "Ok", NoData)
    ELSE IF from - back + 1 > Len(children) THEN NDone(m, "panic", NoData)
    ELSE Once({IF a.res # "Ok" THEN a
               ELSE AddKeys(a.n, keys, children, from + 1, to, back, key_at + KEY_SIZE) :
                    a \in {add_key_and_left_child(m, BytesAt(keys, key_at, KEY_SIZE),
                                                  children[from - back + 1])}})

\* The end of the root's split: the count 2, then the left node's offset and
\* over it the right node's offset in the first child slot; the key at
\* INTERNAL_NODE_KEY_OFFSET is read and written back.
RootWritten(n, d, left, r, pg, b) ==
    IF r.res # "Ok" THEN SDone(n, pg, b, r.res, NoData)
    ELSE SDone([n EXCEPT !.page.data =
                    PageOf(d,
                           write_bytes_at_offset(
                               write_bytes_at_offset(
                                   write_bytes_at_offset(HeadOf(d), to_be_bytes(2), 0),
                                   to_be_bytes(left.offset), PTR_SIZE),
                               to_be_bytes(r.n.offset), PTR_SIZE),
                           d.region)],
               pg, b, "Ok",
               SplitResult(left, BytesAt(d.region, 0, KEY_SIZE)) @@ [right |-> r.n])

\* The right node of the root's split: the keys after the one in the
\* middle are read from INTERNAL_NODE_NUM_CHILDREN_OFFSET on, then the last
\* child is added.
RootRight(n, d, num_key, left, right, pg, b) ==
    IF left.res # "Ok" THEN SDone(n, pg, b, left.res, NoData)
    ELSE Once({IF a.res # "Ok" THEN SDone(n, pg, b, a.res, NoData)
               ELSE Once({RootWritten(n, d, left.n, r, pg, b) :
                            r \in {add_child(a.n, d.children[num_key + 1])}}) :
                    a \in {AddKeys(right, HeadOf(d), d.children,
                                   num_key \div 2 + 1, num_key, 0, 0)}})

\* The left node of the root's split: the keys before the one in the middle
\* with the children before them, then the child of the middle.
RootLeft(n, d, num_key, left, right, pg, b) ==
    Once({IF a.res # "Ok" THEN SDone(n, pg, b, a.res, NoData)
          ELSE Once({RootRight(n, d, num_key, l, right, pg, b) :
                        l \in {add_child(a.n, d.children[num_key \div 2 + 1])}}) :
                a \in {AddKeys(left, d.region, d.children, 1, num_key \div 2, 1, 0)}})

\* Node::split of the root, from the two new pages g1 and g2 on: with no
\* child the count - 1 has wrapped and children.get(0).unwrap() panics.
RootPages(n, d, g1, g2) ==
    IF g1.res # "Ok" THEN SDone(n, g1.pg, g1.b, g1.res, NoData)
    ELSE IF g2.res # "Ok" THEN SDone(n, g2.pg, g2.b, g2.res, NoData)
    ELSE IF d.children = <<>> THEN SDone(n, g2.pg, g2.b, "panic", NoData)
    ELSE RootLeft(n, d, Len(d.children) - 1,
                  Node_new6("Internal", n.parent_offset, g1.data.page_num, FALSE,
                            g1.data, TRUE),
                  Node_new6("Internal", n.parent_offset, g2.data.page_num, FALSE,
                            g2.data, TRUE),
                  g2.pg, g2.b)

\* Node::split of an internal root.
SplitRoot(n, pg, b, q) ==
    IF NoChild(n) /\ b.overflow_checks THEN SDone(n, pg, b, "panic", NoData)
    ELSE Once({Once({RootPages(n, Inner(n.page.data), g1, g2) :
                        g2 \in {get_new_page(g1.pg, g1.b, q)}}) :
                    g1 \in {get_new_page(pg, b, q)}})

\* Node::split of an internal node that is not the root, from the parent's
\* page gp on: the key of the middle and the left node's offset go to a copy
\* of the parent.
InternalParent(n, median_key, left, gp, p) ==
    IF p.res # "Ok" THEN SDone(n, gp.pg, gp.b, p.res, NoData)
    ELSE Once({SDone(n, gp.pg, gp.b, a.res,
                     IF a.res = "Ok" THEN SplitResult(left, median_key) ELSE NoData) :
                    a \in {add_key_and_left_child(p.n, median_key, left.offset)}})

\* The node itself: a zero byte to the count and to the key region, the
\* keys after the one in the middle, read from
\* INTERNAL_NODE_NUM_CHILDREN_OFFSET on, and the last child are added to it,
\* then the parent's page is fetched, which must not fail.
InternalRight(n, d, num_key, median_key, left, pg, b, q) ==
    IF left.res # "Ok" THEN SDone(n, pg, b, left.res, NoData)
    ELSE Once({IF a.res # "Ok" THEN SDone(a.n, pg, b, a.res, NoData)
               ELSE Once({IF c.res # "Ok" THEN SDone(c.n, pg, b, c.res, NoData)
                          ELSE Once({IF gp.res # "Ok"
                                     THEN SDone(c.n, gp.pg, gp.b, "panic", NoData)
                                     ELSE InternalParent(
                                            c.n, median_key, left.n, gp,
                                            Node_try_from(gp.data.data, n.parent_offset)) :
                                    gp \in {Pager_get_page(pg, b,
                                                n.parent_offset \div PAGE_SIZE, q)}}) :
                        c \in {add_child(a.n, d.children[num_key + 1])}}) :
                    a \in {AddKeys([n EXCEPT !.page.data =
                                        PageOf(d, HeadOf(d),
                                               write_bytes_at_offset(d.region, <<0>>, 0))],
                                   HeadOf(d), d.children,
                                   num_key \div 2 + 1, num_key, 0, 0)}})

\* The left node: as that of the root's split, the key of the middle being
\* the region's key after the keys that went to the left node.
InternalLeft(n, d, num_key, g, q) ==
    IF g.res # "Ok" THEN SDone(n, g.pg, g.b, g.res, NoData)
    ELSE IF d.children = <<>> THEN SDone(n, g.pg, g.b, "panic", NoData)
    ELSE Once({IF a.res # "Ok" THEN SDone(n, g.pg, g.b, a.res, NoData)
               ELSE Once({InternalRight(
                            n, d, num_key,
                            BytesAt(d.region, Max2(num_key \div 2 - 1, 0) * KEY_SIZE,
                                    KEY_SIZE),
                            l, g.pg, g.b, q) :
                        l \in {add_child(a.n, d.children[num_key \div 2 + 1])}}) :
                    a \in {AddKeys(Node_new6("Internal", n.parent_offset, g.data.page_num,
                                             FALSE, g.data, TRUE),
                                   d.region, d.children, 1, num_key \div 2, 1, 0)}})

\* Node::split of an internal node that is not the root.
SplitInternal(n, pg, b, q) ==
    IF NoChild(n) /\ b.overflow_checks THEN SDone(n, pg, b, "panic", NoData)
    ELSE Once({InternalLeft(n, Inner(n.page.data), Len(n.page.data.children) - 1, g, q) :
                    g \in {get_new_page(pg, b, q)}})

\* Node::split.  The root is split as an internal node: a root leaf's pair
\* count is read as its number of children and get_children refuses what
\* is not an internal node.  A leaf that is not the root is split at the
\* middle of its sorted pairs.
Node_split(n, pg, b, q) ==
    IF n.is_root
    THEN IF n.node_type = "Internal" THEN SplitRoot(n, pg, b, q)
         ELSE IF Len(n.page.data.pairs) = 0 /\ b.overflow_checks
         THEN SDone(n, pg, b, "panic", NoData)
         ELSE SDone(n, pg, b, get_children(n).res, NoData)
    ELSE IF n.node_type = "Leaf"
    THEN SplitLeaf(n, get_key_value_pairs(n), pg, b, q)
    ELSE IF n.node_type = "Internal" THEN SplitInternal(n, pg, b, q)
    ELSE SDone(n, pg, b, "UnexpectedError", NoData)

\* The BTree's methods take the tree t, its Pager pg and the buffer b.
TDone(t, pg, b, res, data) == [t |-> t, pg |-> pg, b |-> b, res |-> res, data |-> data]

\* No guard of a node's lock is held.
Free == "free"

\* RwLock::write by the thread that holds a guard of the lock: the call
\* panics or never returns.
Relock == Stopped

\* RwLock::write of a node's lock while the guard `held` of it is alive.
WriteBlocked(held) == held # Free

\* search_node_inserted at an internal node n none of whose keys is
\* search_key or more: node.write() under the read guard `held` that the
\* function took of the node, then update_internal_key of the last of the
\* keys get_keys returned.
widen(n, keys, search_key, held, r) ==
    IF keys = <<>> THEN NDone(n, "UnexpectedError", NoData)
    ELSE IF WriteBlocked(held) THEN NDone(n, r, NoData)
    ELSE update_internal_key(n, keys[Len(keys)], search_key)

\* BTree::new: the root is a leaf on the Pager's next page.
BTree_new(pg, f, b, q) ==
    LET g == get_new_page(pg, b, q) IN
    IF g.res # "Ok" THEN TDone(NoTree, g.pg, g.b, g.res, NoData)
    ELSE TDone([file_name |-> f,
                root |-> Node_new("Leaf", 0, g.data.page_num, TRUE, g.data),
                first_offset |-> g.data.page_num],
               g.pg, g.b, "Ok", NoData)

\* if *key == *search_key, on the keys get_keys returns.
\* KeyMatches that takes every key for the one looked for.
KeyMatchesAny(key, search_key) == TRUE

KeyMatches(key, search_key) == key = search_key

\* Option<KeyValuePair>
NoPair == <<>>
Some(kv) == <<kv>>

\* BTree::search_node and BTree::search_node_inserted on a leaf: the pair
\* at the index of the first key that is search_key, or NoPair.

\* The pair at index i of the pairs kvs that get_key_value_pairs returned.
SearchedPair(n, kvs, i) ==
    IF kvs.res # "Ok" THEN NDone(n, kvs.res, NoPair)
    ELSE IF i > Len(kvs.data) THEN NDone(n, "Ok", NoPair)
    ELSE NDone(n, "Ok", Some(kvs.data[i]))

\* The search among the keys that get_keys returned.
SearchedKeys(n, keys, search_key) ==
    LET I == {i \in 1..Len(keys) : KeyMatches(keys[i], search_key)} IN
    IF I = {} THEN NDone(n, "Ok", NoPair)
    ELSE SearchedPair(n, get_key_value_pairs(n), Min(I))

SearchedNode(n, ks, search_key) ==
    IF ks.res # "Ok" THEN NDone(n, ks.res, NoPair)
    ELSE SearchedKeys(n, ks.data, search_key)

\* get_keys is called once, ks is what it returned.
search_node(n, search_key) ==
    Once({SearchedNode(n, ks, search_key) : ks \in {get_keys(n)}})

\* BTree::search
search(t, pg, b, key) ==
    LET s == search_node(t.root, key) IN
    IF s.res # "Ok" THEN TDone(t, pg, b, s.res, NoData)
    ELSE IF s.data = NoPair THEN TDone(t, pg, b, "KeyNotFound", NoData)
    ELSE TDone(t, pg, b, "Ok", s.data[1])

\* if kv_pair_exists.is_some()
\* IsSome that never finds the key there.
IsSomeNever(kv) == FALSE

IsSome(kv) == kv # NoPair

\* BTree::split_node of the root, which is the node a tree of one leaf
\* hands to it: node.write(), then Node::split, and the first leaf's offset
\* follows when it was the node that was split.  held is the guard of the
\* node that the caller holds, r what the lock makes of a second one.
NodeWasSplit(t, s) ==
    IF s.res # "Ok" THEN TDone([t EXCEPT !.root = s.n], s.pg, s.b, s.res, NoData)
    ELSE TDone([t EXCEPT !.root = s.n,
                         !.first_offset = IF s.n.offset = @ /\ s.data.is_split
                                          THEN s.data.offset ELSE @],
               s.pg, s.b, "Ok", NoData)

split_node(t, pg, b, held, q, r) ==
    IF WriteBlocked(held) THEN TDone(t, pg, b, r, NoData)
    ELSE NodeWasSplit(t, Node_split(t.root, pg, b, q))

\* BTree::insert into the leaf search_node_inserted found, under the write
\* guard of its lock.  With fewer than NODE_KEYS_LIMIT keys the pair is added
\* to the node, then the node's page is written to the buffer; else the node
\* goes to split_node while the guard is alive, and the pair is not added.
InsertWritten(t, w) == TDone(t, w.pg, w.b, w.res, NoData)

\* insert after add_key_value_pair returned a: the node's page is written.
InsertAdded(t, pg, b, q, a) ==
    IF a.res # "Ok" THEN TDone([t EXCEPT !.root = a.n], pg, b, a.res, NoData)
    ELSE InsertWritten([t EXCEPT !.root = a.n],
                       Pager_write_page(pg, b, Page(a.n.page.data, a.n.page.file_name,
                                                    a.n.page.page_num), q))

\* insert after search_node returned s.
InsertSearched(t, pg, b, kv, q, r, s) ==
    IF s.res # "Ok" THEN TDone(t, pg, b, s.res, NoData)
    ELSE IF IsSome(s.data) THEN TDone(t, pg, b, "KeyAlreadyExists", NoData)
    ELSE LET l == get_keys_len(t.root) IN
    IF l.res # "Ok" THEN TDone(t, pg, b, l.res, NoData)
    ELSE IF ~(l.data < NODE_KEYS_LIMIT) THEN split_node(t, pg, b, "write", q, r)
    ELSE InsertAdded(t, pg, b, q, add_key_value_pair(t.root, kv))

insert(t, pg, b, kv, q, r) ==
    InsertSearched(t, pg, b, kv, q, r, search_node(t.root, kv.key))

\* BTree::update: update_value on the node search_node found the key in.
update(t, pg, b, kv) ==
    LET s == search_node(t.root, kv.key) IN
    IF s.res # "Ok" THEN TDone(t, pg, b, s.res, NoData)
    ELSE IF s.data = NoPair THEN TDone(t, pg, b, "KeyNotFound", NoData)
    ELSE LET u == update_value(t.root, kv) IN
         TDone([t EXCEPT !.root = u.n], pg, b, u.res, NoData)

\* Node::delete: true.to_byte() is written to the valid byte of a leaf, an
\* internal node is refused.
Node_delete(n) ==
    IF n.node_type = "Leaf"
    THEN NDone([n EXCEPT !.page.data.valid = TRUE], "Ok", NoData)
    ELSE NDone(n, "UnexpectedError", NoData)

\* BTree::delete: Node::delete on the node search_node found the key in.
DeleteSearched(t, pg, b, s) ==
    IF s.res # "Ok" THEN TDone(t, pg, b, s.res, NoData)
    ELSE IF s.data = NoPair THEN TDone(t, pg, b, "KeyNotFound", NoData)
    ELSE LET d == Node_delete(t.root) IN
         TDone([t EXCEPT !.root = d.n], pg, b, d.res, NoData)

delete(t, pg, b, key) == DeleteSearched(t, pg, b, search_node(t.root, key))

\* The leaf header's offsets of the next and the previous leaf, which
\* search_range reads.
next_leaf(n) == n.page.data.next
prev_leaf(n) == n.page.data.prev

\* search_range from the leaf at next_node_offset on, res being the pairs of
\* the leaves before it: the leaf's page must be fetched and be a node's, its
\* pairs are pushed, and the walk goes on at its next leaf, or back at its
\* previous one, unless that is 0.
RECURSIVE Walk(_, _, _, _, _, _)
WalkOn(to, back, res, pg, b, q) ==
    IF to = 0 THEN PDone(pg, b, "Ok", res) ELSE Walk(to, back, res, pg, b, q)

WalkNode(n, kvs, back, res, pg, b, q) ==
    IF n.res # "Ok" THEN PDone(pg, b, n.res, <<>>)
    ELSE IF kvs.res # "Ok" THEN PDone(pg, b, kvs.res, <<>>)
    ELSE WalkOn(IF back THEN prev_leaf(n.n) ELSE next_leaf(n.n), back,
                res \o kvs.data, pg, b, q)

WalkPage(g, offset, back, res, q) ==
    IF g.res # "Ok" THEN PDone(g.pg, g.b, "panic", <<>>)
    ELSE Once({WalkNode(n, kvs, back, res, g.pg, g.b, q) :
                    n \in {Node_try_from(g.data.data, offset)},
                    kvs \in {get_key_value_pairs(Node_try_from(g.data.data, offset).n)}})

Walk(next_node_offset, back, res, pg, b, q) ==
    Once({WalkPage(g, next_node_offset, back, res, q) :
            g \in {Pager_get_page(pg, b, next_node_offset, q)}})

\* What search_range returns after the walk w.
ScanDone(t, w) == TDone(t, w.pg, w.b, w.res, w.data)

\* search_range with a right key, after search_node returned s: the walk
\* starts at the leaf that holds the key.
ScanBack(t, pg, b, s, q) ==
    IF s.res # "Ok" THEN TDone(t, pg, b, s.res, <<>>)
    ELSE IF s.data = NoPair THEN TDone(t, pg, b, "KeyNotFound", <<>>)
    ELSE Once({ScanDone(t, w) : w \in {Walk(s.n.offset, TRUE, <<>>, pg, b, q)}})

\* BTree::search_range with no left key.  With a right key, the pairs of
\* the leaves from the one that holds it back to the first one; with none,
\* the pairs of the leaves from the first one on.
search_range(t, pg, b, raw_right_key, q) ==
    IF raw_right_key # NoPair
    THEN Once({ScanBack(t, pg, b, s, q) :
                    s \in {search_node(t.root, raw_right_key[1])}})
    ELSE IF t.first_offset = 0 THEN TDone(t, pg, b, "Ok", <<>>)
    ELSE Once({ScanDone(t, w) : w \in {Walk(t.first_offset, FALSE, <<>>, pg, b, q)}})

\* ------------------------------------------- the BTree's state machine
\* gen_buffer, gen_pager and gen_tree of the tests, then the tree's calls
\* and reads of metadata.db pages by the buffer's other callers.

\* A key of KEY_SIZE bytes.
FullKey == [i \in 1..KEY_SIZE |-> 1]

\* The keys and values of the calls.
TreeKeys == {<<1>>, <<1, 2>>, FullKey}
TreeVals == 1..MaxData + 1

TreeCall(o, op, kv) ==
    /\ Step(o, NoKey)
    /\ pager' = o.pg
    /\ tree' = o.t
    /\ ops' = IF op = "insert"
              THEN [ins |-> IF o.res = "Ok"
                            THEN ops.ins \cup {<<kv.key, kv.value>>}
                            ELSE ops.ins,
                    clean |-> /\ ops.clean
                              /\ o.res = "Ok"
                              /\ \A x \in ops.ins : x[1] # kv.key]
              ELSE IF op \in {"update", "delete", "search_range"}
              THEN [ops EXCEPT !.clean = FALSE]
              ELSE ops
    /\ UNCHANGED <<mon, pos, recs, node>>

TreeNew ==
    /\ pager # NoPager
    /\ tree = NoTree
    /\ pager.cnt < MaxCnt
    /\ \E q \in Quota1 :
            TreeCall(BTree_new(pager, TestFile, Self, q), "", KeyValuePair(<<>>, 0))

Insert ==
    /\ tree # NoTree
    /\ Len(tree.root.page.data.pairs) < MaxOps
    /\ \E key \in TreeKeys, value \in TreeVals, q \in Quota1, r \in Relock :
            TreeCall(insert(tree, pager, Self, KeyValuePair(key, value), q, r),
                     "insert", KeyValuePair(key, value))

Update ==
    /\ tree # NoTree
    /\ \E key \in TreeKeys, value \in TreeVals :
            TreeCall(update(tree, pager, Self, KeyValuePair(key, value)),
                     "update", KeyValuePair(key, value))

NextTree ==
    \/ PagerNew
    \/ TreeNew
    \/ Insert
    \/ Update
    \/ ReadMeta

SpecTree == InitPager /\ [][NextTree]_vars

\* ------------------------------------------- a leaf filled to its limit
\* gen_tree of the tests, then inserts of one new key after the other until
\* the root has NODE_KEYS_LIMIT keys and one more insert is made; deletes and
\* scans of the tree in between.

\* The i-th key inserted, of two bytes, and its value.
KeyAt(i) == <<1 + (i \div 100), 1 + (i % 100)>>
ValAt(i) == 1 + (i % 2)

\* The keys the deletes and searches are called with: the first one
\* inserted and the last one a full leaf holds.
LeafKeys == {KeyAt(i) : i \in {1, NODE_KEYS_LIMIT}}

InsertNext ==
    /\ tree # NoTree
    /\ Len(tree.root.page.data.pairs) <= NODE_KEYS_LIMIT
    /\ \E q \in Quota1, r \in Relock :
        LET i == Len(tree.root.page.data.pairs) + 1 IN
            TreeCall(insert(tree, pager, Self, KeyValuePair(KeyAt(i), ValAt(i)), q, r),
                     "insert", KeyValuePair(KeyAt(i), ValAt(i)))

Delete ==
    /\ tree # NoTree
    /\ \E key \in LeafKeys :
            TreeCall(delete(tree, pager, Self, key), "delete", KeyValuePair(key, 0))

SearchRange ==
    /\ tree # NoTree
    /\ \E right \in {NoPair} \cup {Some(k) : k \in LeafKeys}, q \in Quota1 :
            TreeCall(search_range(tree, pager, Self, right, q), "search_range",
                     KeyValuePair(<<>>, 0))

NextLeaf ==
    \/ PagerNew
    \/ TreeNew
    \/ InsertNext
    \/ Delete
    \/ SearchRange

SpecLeaf == InitPager /\ [][NextLeaf]_vars

\* --------------------------------------------- the Node's state machine
\* A Pager, pages of it, a page that holds the parent, and a Node made from
\* the bytes of a page as TryFrom<NodeSpec> makes it, with the calls of its
\* methods.

\* The keys of the pages and of the calls.
NodeKeys == {<<1>>, <<2>>, <<1, 2>>}

\* The page of the parent and its offset.
ParentPage == 1
ParentOffset == ParentPage * PAGE_SIZE

\* The offset of the node itself.
NodeOffset == 2 * PAGE_SIZE

\* The sequences of at most n different keys of NodeKeys.
RECURSIVE KeySeqs(_)
KeySeqs(n) ==
    IF n = 0 THEN {<<>>}
    ELSE KeySeqs(n - 1) \cup
         {Append(ks, k) : ks \in {x \in KeySeqs(n - 1) : Len(x) = n - 1},
                          k \in NodeKeys}

\* The bytes of a leaf page with the pairs of the keys ks.
LeafPage(is_root, ks) ==
    [node_type |-> "Leaf", is_root |-> is_root,
     parent_offset |-> IF is_root THEN 0 ELSE ParentOffset, valid |-> TRUE,
     next |-> 0, prev |-> 0,
     pairs |-> [i \in 1..Len(ks) |-> <<Pad(ks[i]), 1>>], stale |-> <<>>]

\* The bytes of an internal page with the key slots keys and the children.
InternalPage(is_root, keys, children) ==
    [node_type |-> "Internal", is_root |-> is_root,
     parent_offset |-> IF is_root THEN 0 ELSE ParentOffset, valid |-> TRUE,
     next |-> 0, prev |-> 0, pairs |-> <<>>, stale |-> <<>>,
     keys |-> keys, children |-> children, region |-> <<>>]

ChildOffsets == [i \in 1..3 |-> (2 + i) * PAGE_SIZE]

InternalPages ==
    {InternalPage(is_root, keys, SubSeq(ChildOffsets, 1, Len(keys) + 1)) :
        is_root \in BOOLEAN,
        keys \in {<<Pad(<<1>>)>>, <<FullKey>>, <<Pad(<<1>>), Pad(<<1, 2>>)>>}}

\* The internal pages of the calls that add keys and children: of one
\* child and no key, and of sorted keys with their children.
InnerPages ==
    {InternalPage(is_root, keys, SubSeq(ChildOffsets, 1, Len(keys) + 1)) :
        is_root \in BOOLEAN,
        keys \in {<<>>, <<Pad(<<1>>)>>, <<Pad(<<1>>), Pad(<<1, 2>>)>>}}

LeafPages ==
    {LeafPage(is_root, ks) :
        is_root \in BOOLEAN,
        ks \in {x \in KeySeqs(MaxPairs) : \A i, j \in 1..Len(x) : x[i] = x[j] => i = j}
                \cup {<<FullKey>>, <<<<1>>, FullKey>>}}

\* The pages a parent is read from: internal ones, one of no child, a leaf.
ParentPages ==
    {d \in InternalPages : d.is_root} \cup
    {InternalPage(TRUE, <<>>, <<>>), LeafPage(TRUE, <<>>)}

NodeCall(o) ==
    /\ Step(o, NoKey)
    /\ pager' = o.pg
    /\ node' = o.n
    /\ UNCHANGED <<mon, pos, recs, tree, ops>>

ParentWrite ==
    /\ pager # NoPager
    /\ pager.cnt >= ParentPage
    /\ node = NoNode
    /\ \E d \in ParentPages, q \in Quota1 :
            PagerCall(Pager_write_page(pager, Self, Page(d, TestFile, ParentPage), q))
    /\ UNCHANGED recs

NodeTryFrom ==
    /\ pager # NoPager
    /\ node = NoNode
    /\ \E d \in LeafPages \cup InternalPages \cup {ZeroPage} :
        LET o == Node_try_from(d, NodeOffset)
        IN NodeCall(SDone(o.n, pager, Self, o.res, NoData))

AddKeyValuePair ==
    /\ node.node_type = "Leaf"
    /\ Len(node.page.data.pairs) < MaxPairs
    /\ \E key \in NodeKeys :
        LET o == add_key_value_pair(node, KeyValuePair(key, 1))
        IN NodeCall(SDone(o.n, pager, Self, o.res, NoData))

UpdateInternalKey ==
    /\ node.node_type = "Internal"
    /\ \E old_key \in NodeKeys \cup {FullKey}, new_key \in NodeKeys :
        LET o == update_internal_key(node, old_key, new_key)
        IN NodeCall(SDone(o.n, pager, Self, o.res, NoData))

\* The keys and the child of the calls of add_key_and_left_child.
SlotKeys == {Pad(<<1>>), Pad(<<2>>), FullKey, <<2>>}
NewChild == 7 * PAGE_SIZE

InnerTryFrom ==
    /\ pager # NoPager
    /\ node = NoNode
    /\ \E d \in InnerPages :
        LET o == Node_try_from(d, NodeOffset)
        IN NodeCall(SDone(o.n, pager, Self, o.res, NoData))

AddKeyAndLeftChild ==
    /\ node.node_type = "Internal"
    /\ Len(node.page.data.children) <= MaxKids
    /\ \E key \in SlotKeys :
        LET o == add_key_and_left_child(node, key, NewChild)
        IN NodeCall(SDone(o.n, pager, Self, o.res, NoData))

Split ==
    /\ node.node_type = "Leaf"
    /\ pager.cnt < MaxCnt
    /\ \E q \in Quota1 : NodeCall(Node_split(node, pager, Self, q))

SplitInner ==
    /\ node.node_type = "Internal"
    /\ pager.cnt < MaxCnt
    /\ \E q \in Quota1 : NodeCall(Node_split(node, pager, Self, q))

NextNode ==
    \/ PagerNew
    \/ GetNewPage
    \/ ParentWrite
    \/ NodeTryFrom
    \/ AddKeyValuePair
    \/ UpdateInternalKey
    \/ Split

SpecNode == InitPager /\ [][NextNode]_vars

\* The internal node's state machine: a Pager, a Node made from an internal
\* page, keys and children added to it, its split.
NextInner ==
    \/ PagerNew
    \/ InnerTryFrom
    \/ AddKeyAndLeftChild
    \/ SplitInner

SpecInner == InitPager /\ [][NextInner]_vars

\* ------------------------------------------------------------ properties

\* The (file, page number) of a page.
KeyOf(pg) == <<pg.file_name, pg.page_num>>

\* Page pg's data is what the files fs hold for it.
OnDisk(fs, pg) ==
    /\ pg.file_name \in DOMAIN fs
    /\ pg.page_num <= Len(fs[pg.file_name].pages)
    /\ fs[pg.file_name].pages[pg.page_num] = pg.data

\* C1 (P1, round trip): for either implementation, a file f, a page number
\* p <= n and a content d, after add_file(f); fill_up_to(f, n);
\* write_page(Page(d, f, p)); flush_file(f), get_page(f, p) returns d.
RoundTrip ==
    ret.res # "panic" =>
    \A f \in FileNames \ DOMAIN file, n \in PageNums, d \in Datas :
      \A p \in 1..n :
        LET o1 == add_file(Self, f)
            o2 == fill_up_to(o1.b, f, n)
            o3 == write_page(o2.b, f, p, d, 1)
            o4 == flush_file(o3.b, f, buff_size)
            o5 == get_page(o4.b, f, p, 1)
        IN o5.res = "Ok" /\ o5.data = d

\* C2 (I4, write-back before reuse): under either implementation, whenever
\* get_page or write_page makes a slot hold a different (file, page number),
\* the content the slot held is on disk when the call returns (stated for
\* a cache whose pages all belong to files add_file registered).
WriteBackBeforeReuse ==
    (/\ ret.res # "panic"
     /\ \A i \in 1..Len(list) : list[i].page.file_name \in DOMAIN file) =>
    \A f \in FileNames, p \in PageNums, d \in Datas, q \in Quota1 :
      \A o \in {get_page(Self, f, p, q), write_page(Self, f, p, d, q)} :
        \A i \in 1..Len(list) :
            KeyOf(o.b.list[i].page) # KeyOf(list[i].page)
                => OnDisk(o.b.file, list[i].page)

\* C3 (I3): the cache never holds more than buff_size pages, no two entries
\* have the same (file, page number), and write_page changes an entry only
\* when its file and page number both match the page written, or when it is
\* the victim of a miss on a full cache.
CacheInvariant ==
    /\ Len(list) <= buff_size
    /\ \A i, j \in 1..Len(list) :
            i # j => KeyOf(list[i].page) # KeyOf(list[j].page)
    /\ ret.res # "panic" =>
       \A f \in FileNames, p \in PageNums, d \in Datas :
         LET o == write_page(Self, f, p, d, 1) IN
         \A i \in 1..Len(list) :
            o.b.list[i].page # list[i].page
                => \/ KeyOf(list[i].page) = <<f, p>>
                   \/ Item(list, f, p) = 0 /\ Len(list) = buff_size

\* C4 (P2): on a new buffer of capacity buff_size, after get_page of
\* buff_size distinct pages and of one more page distinct from them, the
\* page read first is not cached and has been written to disk exactly once.
FirstReadEvicted ==
    (mon.on /\ Len(mon.reads) = buff_size + 1)
        => /\ Item(list, TestFile, mon.reads[1]) = 0
           /\ mon.wb = 1

FirstReadEvictedWitness ==
    /\ mon.on
    /\ Len(mon.reads) = buff_size + 1
    /\ buff_size = TestBuff
    /\ Len(list) = buff_size

\* C5: under LRU, the page a get_page miss on a full cache replaces is the
\* cached page whose last access (its load, a get_page hit or a write_page
\* hit) is the oldest.
TrueLRU ==
    (policy = "LRU" /\ ret.res # "panic" /\ Len(list) = buff_size) =>
    \A f \in FileNames, p \in PageNums :
        LET o == get_page(Self, f, p, 1) IN
        (Item(list, f, p) = 0 /\ o.res = "Ok") =>
            \A i \in 1..Len(list) :
                KeyOf(o.b.list[i].page) # KeyOf(list[i].page)
                    => KeyOf(list[i].page) = Head(acc)

\* The slot the CLOCK rule names for a ring l of n slots with the cursor at
\* c: the first slot from c, cyclically, whose bit is 0; c when there is none.
ZeroBits(l, c, n) == {d \in 0..(n - 1) : l[((c + d) % n) + 1].access = 0}

ClockVictim(l, c, n) ==
    IF ZeroBits(l, c, n) = {} THEN c ELSE (c + Min(ZeroBits(l, c, n))) % n

\* The distances from the cursor of the slots the scan passes before it stops.
ClockPassed(l, c, n) ==
    IF ZeroBits(l, c, n) = {} THEN 0..(n - 1)
    ELSE 0..(Min(ZeroBits(l, c, n)) - 1)

\* The test's slots after its first four and after all its eight reads.
TraceSlots(n) ==
    IF n = 4 THEN <<2, 4, 3, 1>> ELSE IF n = 8 THEN <<5, 7, 3, 6>> ELSE <<>>

\* C6: under CLOCK a get_page hit sets the entry's bit to 1 and leaves the
\* cursor; a miss on a full cache clears every 1 bit from the cursor up to
\* the first slot whose bit is 0, replaces that slot (the slot at the cursor
\* when every bit was 1), leaves the cursor on it and gives the new entry bit
\* 1; every other slot stays as it was.  On four slots the reads 2, 4, 3, 1,
\* 5, 7, 3, 6 leave the slots holding 5, 7, 3, 6.
ClockReplacement ==
    policy = "CLOCK" =>
    /\ \A p \in 1..MaxRead :
        LET o == get_page(Self, TestFile, p, 1)
            h == Item(list, TestFile, p)
            new == [page |-> Page(file[TestFile].pages[p], TestFile, p),
                    access |-> 1]
            v == ClockVictim(list, cur, buff_size)
        IN /\ o.res = "Ok"
           /\ IF h # 0
              THEN o.b.list = [list EXCEPT ![h].access = 1] /\ o.b.cur = cur
              ELSE IF Len(list) < buff_size
              THEN o.b.list = Append(list, new) /\ o.b.cur = cur
              ELSE /\ o.b.cur = v
                   /\ o.b.list[v + 1] = new
                   /\ Len(o.b.list) = buff_size
                   /\ \A d \in 0..(buff_size - 1) :
                        LET k == (cur + d) % buff_size IN
                        k # v =>
                          o.b.list[k + 1] =
                            IF d \in ClockPassed(list, cur, buff_size)
                            THEN [list[k + 1] EXCEPT !.access = 0]
                            ELSE list[k + 1]
    /\ (buff_size = TestBuff /\ pos \in {4, 8}) =>
            [i \in 1..Len(list) |-> list[i].page.page_num] = TraceSlots(pos)

ClockReplacementWitness ==
    /\ policy = "CLOCK"
    /\ buff_size = TestBuff
    /\ pos = Len(TestTrace)
    /\ cur = 3

\* C7: under LRU a write_page for a page that is not cached, on a full
\* cache, succeeds: a victim's content is on disk and its slot holds the
\* page written.
LRUWriteMissReplaces ==
    (policy = "LRU" /\ ret.res # "panic" /\ Len(list) = buff_size) =>
    \A f \in FileNames, p \in PageNums, d \in Datas :
        Item(list, f, p) = 0 =>
            LET o == write_page(Self, f, p, d, 1) IN
            /\ o.res = "Ok"
            /\ \E i \in 1..Len(list) :
                /\ o.b.list[i].page = Page(d, f, p)
                /\ OnDisk(o.b.file, list[i].page)

\* C8: under either implementation flush(f, p) writes the cached page to
\* disk when (f, p) is cached, and is a NotInBufferError that writes nothing
\* when it is not.
FlushContract ==
    ret.res # "panic" =>
    \A f \in FileNames, p \in PageNums :
        LET o == flush(Self, f, p, 1)
            h == Item(list, f, p)
        IN IF h # 0
           THEN o.res = "Ok" /\ OnDisk(o.b.file, list[h].page)
           ELSE o.res = "NotInBufferError" /\ o.b.file = file /\ o.b.log = <<>>

\* C9: get_page, and every other operation that takes a file name, on a
\* name add_file never registered is a FileNotFound error that leaves the
\* cache and the file map as they were; it never panics.
UnknownFileIsError ==
    ret.res # "panic" =>
    \A f \in FileNames \ DOMAIN file, p \in PageNums, d \in Datas :
      \A o \in {get_page(Self, f, p, 1), write_page(Self, f, p, d, 1),
                flush(Self, f, p, 1), flush_file(Self, f, buff_size),
                fill_up_to(Self, f, p)} :
        o.res = "FileNotFound" /\ o.b = Self

\* C10: a get_page or write_page that fails because the write of the victim
\* to disk fails is an UnexpectedError that leaves the whole cache as it
\* was: entries, contents, LRU times, CLOCK bits and cursor.
FailedWriteBackKeepsCache ==
    (ret.res # "panic" /\ Len(list) = buff_size) =>
    \A f \in DOMAIN file, p \in PageNums, d \in Datas :
      \A o \in {get_page(Self, f, p, 0), write_page(Self, f, p, d, 0)} :
        (Item(list, f, p) = 0 /\ o.res = "UnexpectedError")
            => o.b.list = list /\ o.b.cur = cur

\* --------------------------------------------------- the file's format

\* The length of the file: the header pages and the data pages written.
FileSize(fl) == (NON_DATA_PAGE + Len(fl.pages)) * PAGE_SIZE

\* test.db as add_file and fill_up_to calls with growing counts leave it:
\* no bytes inserted, the count in the header that of the pages.
Grown ==
    /\ ret.res # "panic"
    /\ TestFile \in DOMAIN file
    /\ Ranges(file[TestFile].pages) = 0
    /\ Len(file[TestFile].pages) = file[TestFile].page_num - INIT_FILE_PAGE_NUM

\* C11: after add_file and fill_up_to calls with accepted counts that do
\* not decrease, one more fill_up_to with an accepted count m that is no
\* smaller than the last one returns Ok, the file is
\* (NON_DATA_PAGE + m) * PAGE_SIZE bytes long and the count in its header
\* is that of its pages; the file is never shorter than before.
FileGrowth ==
    Grown =>
    \A m \in FillNums :
        (~OutOfSize(m) /\ m >= Len(file[TestFile].pages)) =>
        LET o == fill_up_to(Self, TestFile, m) IN
            /\ o.res = "Ok"
            /\ FileSize(o.b.file[TestFile]) = (NON_DATA_PAGE + m) * PAGE_SIZE
            /\ o.b.file[TestFile].page_num = INIT_FILE_PAGE_NUM + m
            /\ FileSize(o.b.file[TestFile]) >= FileSize(file[TestFile])

FreeTail(c) ==
    PAGE_SIZE - (IF c = <<>> THEN 0 ELSE c[Len(c)][1] + c[Len(c)][2])

\* C13: a successful insert_bytes(f, bytes) returns f, a page and the
\* offset PAGE_SIZE - free, where free, the page's entry before the write,
\* is strictly larger than the length; the bytes are in that page at that
\* offset; every page of a lower index has an entry that is not larger than
\* the length; and when the file had a page with a larger entry before the
\* call, the page is the lowest such one.
FirstFit ==
    (ret.res # "panic" /\ TestFile \in DOMAIN file) =>
    \A len \in Lens, v \in 1..MaxData :
        LET o == insert_bytes(Self, TestFile, len, v)
            fl == file[TestFile]
            g == o.b.file[TestFile]
            i == o.data.page_num
            free == Entry(g, i) + len
        IN o.res = "Ok" =>
            /\ o.data.file_name = TestFile
            /\ i \in 0..(g.page_num - 1)
            /\ free > len
            /\ o.data.offset = PAGE_SIZE - free
            /\ \E k \in 1..Len(g.pages[i + 1]) :
                    g.pages[i + 1][k] = <<PAGE_SIZE - free, len, v>>
            /\ \A j \in 0..(i - 1) : Entry(g, j) <= len
            /\ (\E j \in 0..(fl.page_num - 1) : Entry(fl, j) > len) =>
                    /\ Entry(fl, i) = free
                    /\ \A j \in 0..(i - 1) : Entry(fl, j) <= len

\* insert_bytes passes a page whose entry equals the length and places the
\* bytes in a later page.
FirstFitWitness ==
    /\ ret.res # "panic"
    /\ TestFile \in DOMAIN file
    /\ \E len \in Lens :
        LET o == insert_bytes(Self, TestFile, len, 1) IN
            /\ o.res = "Ok"
            /\ \E j \in 0..(o.data.page_num - 1) :
                    Entry(file[TestFile], j) = len

\* C14: after a successful insert_bytes(f, bytes) the entry of the chosen
\* page is smaller by the length than before (PAGE_SIZE for a page the call
\* itself added) and is the number of bytes after the last byte written to
\* the page; the entries of the other pages the file had before the call
\* are as they were.
FreeBytesAccounting ==
    (ret.res # "panic" /\ TestFile \in DOMAIN file) =>
    \A len \in Lens, v \in 1..MaxData :
        LET o == insert_bytes(Self, TestFile, len, v)
            fl == file[TestFile]
            g == o.b.file[TestFile]
            i == o.data.page_num
            before == IF i + 1 <= Len(fl.pages) THEN Entry(fl, i) ELSE PAGE_SIZE
        IN o.res = "Ok" =>
            /\ Entry(g, i) = before - len
            /\ Entry(g, i) = FreeTail(g.pages[i + 1])
            /\ \A j \in 0..(Len(fl.pages) - 1) \ {i} : Entry(g, j) = Entry(fl, j)

\* insert_bytes places bytes after those a page of the file already holds.
FreeBytesAccountingWitness ==
    /\ ret.res # "panic"
    /\ TestFile \in DOMAIN file
    /\ \E len \in Lens :
        LET o == insert_bytes(Self, TestFile, len, 1)
            i == o.data.page_num
        IN  /\ o.res = "Ok"
            /\ i + 1 <= Len(file[TestFile].pages)
            /\ file[TestFile].pages[i + 1] # ZeroPage
            /\ Entry(o.b.file[TestFile], i) < PAGE_SIZE - len

\* ------------------------------------------------------------ the Pager

RecordRoundTrip ==
    (ret.res # "panic" /\ pager # NoPager) =>
    \A r \in 1..Len(recs) :
        LET o == recs[r][1]
            len == recs[r][2]
        IN  /\ (o % PAGE_SIZE) + len <= PAGE_SIZE
            /\ o \div PAGE_SIZE + 1 \in 1..pager.cnt
            /\ \A s \in 1..Len(recs) \ {r} :
                    \/ o + len <= recs[s][1]
                    \/ recs[s][1] + recs[s][2] <= o
            /\ \A q \in Quota1 :
                    LET g == get_value(pager, Self, o, len, q) IN
                        /\ g.res # "panic"
                        /\ q = 1 => g.res = "Ok"
                        /\ g.res = "Ok" => g.data = <<<<0, len, recs[r][3]>>>>

\* The remaining capacity the Pager pg records for every page it handed
\* out is the page's entry in the header of the file.
Mirrored(pg, b) ==
    \A p \in 1..pg.cnt :
        pg.remain_size[p + 1][1] = Entry(b.file[pg.file_name], p - 1)

\* C17: after every successful insert_value and every successful
\* Pager.fill_up_to the remaining capacity the Pager records for each page
\* it handed out equals the free-bytes entry of that page in the file
\* header.
CapacityMirror ==
    (ret.res # "panic" /\ pager # NoPager) =>
        /\ \A len \in PagerLens, q \in Quota1 :
                LET o == insert_value(pager, Self, len, 1, q) IN
                    o.res = "Ok" => Mirrored(o.pg, o.b)
        /\ LET o == Pager_fill_up_to(pager, Self, pager.max_size + 1) IN
                o.res = "Ok" => Mirrored(o.pg, o.b)

\* ------------------------------------------------------------ the BTree

Found(t, pg, b, k) ==
    LET s == search(t, pg, b, k) IN <<s.res, s.data>>

\* C20: from any state of the tree, after insert(k, v) and update(k, v2)
\* have returned, search(k) returns (k, v2), and the other keys are
\* searched with the same result as before the two calls.
UpdateRoundTrip ==
    (ret.res # "panic" /\ tree # NoTree) =>
    \A k \in TreeKeys, v \in TreeVals, v2 \in TreeVals, q \in Quota1, r \in Relock :
        LET i == insert(tree, pager, Self, KeyValuePair(k, v), q, r)
            u == update(i.t, i.pg, i.b, KeyValuePair(k, v2))
            s == search(u.t, u.pg, u.b, k)
        IN i.res = "Ok" =>
            /\ u.res = "Ok"
            /\ s.res = "Ok"
            /\ s.data = KeyValuePair(k, v2)
            /\ \A k2 \in TreeKeys \ {k} :
                    Found(u.t, u.pg, u.b, k2) = Found(tree, pager, Self, k2)

\* C21: delete(k) of a key the tree does not hold returns KeyNotFound, of a
\* key it holds UnexpectedError; either way the tree, the Pager and the
\* buffer are what they were, and search(k) returns what it returned.
DeleteUnsupported ==
    (ret.res \notin Stopped /\ tree # NoTree) =>
    \A k \in LeafKeys :
        LET o == delete(tree, pager, Self, k) IN
            /\ o.res = IF Found(tree, pager, Self, k)[1] = "Ok"
                       THEN "UnexpectedError" ELSE "KeyNotFound"
            /\ o.t = tree
            /\ o.pg = pager
            /\ o.b = Self
            /\ Found(o.t, o.pg, o.b, k) = Found(tree, pager, Self, k)

\* The result is an Err of the call.
IsErr(res) == res \notin {"Ok"} \cup Stopped

\* The number of pairs of the tree's leaf whose key is k.
Stored(t, k) ==
    Cardinality({j \in 1..Len(t.root.page.data.pairs) :
                    Trim(t.root.page.data.pairs[j][1]) = k})

\* C22: after an insert(k, v) of a new key that does not fail with an
\* error, whether the leaf it arrives at has room or is full and goes to
\* split_node, k is stored once and search(k) returns (k, v).
StoredOnce ==
    (ret.res \notin Stopped /\ tree # NoTree) =>
    \A q \in Quota1, r \in Relock :
        LET i == Len(tree.root.page.data.pairs) + 1
            o == insert(tree, pager, Self, KeyValuePair(KeyAt(i), ValAt(i)), q, r)
        IN ~IsErr(o.res) =>
            /\ Stored(o.t, KeyAt(i)) = 1
            /\ Found(o.t, o.pg, o.b, KeyAt(i)) =
                    <<"Ok", KeyValuePair(KeyAt(i), ValAt(i))>>

\* The pairs a leaf holds before it must be split, as the leaf layout is
\* specified.
LEAF_MAX_PAIRS == 10

\* C23: no leaf holds more than LEAF_MAX_PAIRS pairs, and an insert of a
\* new key that arrives at a leaf with LEAF_MAX_PAIRS pairs appends no pair
\* to it.
LeafCapacity ==
    tree # NoTree =>
        /\ Len(tree.root.page.data.pairs) <= LEAF_MAX_PAIRS
        /\ (ret.res \notin Stopped /\ Len(tree.root.page.data.pairs) = LEAF_MAX_PAIRS) =>
            \A q \in Quota1, r \in Relock :
                LET i == Len(tree.root.page.data.pairs) + 1
                    o == insert(tree, pager, Self, KeyValuePair(KeyAt(i), ValAt(i)), q, r)
                IN Len(o.t.root.page.data.pairs) <= LEAF_MAX_PAIRS

\* The pairs of a sequence, as a set.
Range(s) == {s[i] : i \in 1..Len(s)}

\* C24: the scan with no bound returns Ok and the pairs the tree stores,
\* each of them once; the scan back from the leaf of the largest key stored
\* returns the same pairs.
FullScan ==
    (ret.res \notin Stopped /\ tree # NoTree) =>
    \A q \in Quota1 :
        LET kvs == get_key_value_pairs(tree.root).data
            o == search_range(tree, pager, Self, NoPair, q)
        IN  /\ o.res = "Ok"
            /\ Range(o.data) = Range(kvs)
            /\ Len(o.data) = Cardinality(Range(kvs))
            /\ kvs # <<>> =>
                    LET last == CHOOSE x \in Range(kvs) :
                                    \A y \in Range(kvs) : ~StrLess(x.key, y.key)
                        p == search_range(tree, pager, Self, Some(last.key), q)
                    IN p.res = "Ok" /\ Range(p.data) = Range(o.data)

\* C25: an insert of a new key returns, with Ok or an Err: it never asks
\* for the write lock of a node whose lock it holds, which would make it
\* panic or wait for ever.
InsertReturns ==
    (ret.res \notin Stopped /\ tree # NoTree) =>
    \A q \in Quota1, r \in Relock :
        LET i == Len(tree.root.page.data.pairs) + 1
        IN insert(tree, pager, Self, KeyValuePair(KeyAt(i), ValAt(i)), q, r).res
               \notin Relock

\* C29: the first-leaf pointer is the page of the leaf with no previous
\* leaf; an insert into a leaf with room, a delete and a scan leave it
\* alone, and the insert that arrives at the full first leaf moves it to
\* the page of the new left leaf, which the Pager has just handed out.
FirstLeafMoves ==
    (ret.res \notin Stopped /\ tree # NoTree) =>
        /\ tree.first_offset = tree.root.offset
        /\ prev_leaf(tree.root) = 0
        /\ \A key \in LeafKeys :
                delete(tree, pager, Self, key).t.first_offset = tree.first_offset
        /\ \A q \in Quota1, r \in Relock :
            LET i == Len(tree.root.page.data.pairs) + 1
                o == insert(tree, pager, Self, KeyValuePair(KeyAt(i), ValAt(i)), q, r)
            IN  /\ search_range(tree, pager, Self, NoPair, q).t.first_offset
                        = tree.first_offset
                /\ IF i <= NODE_KEYS_LIMIT
                   THEN o.t.first_offset = tree.first_offset
                   ELSE /\ o.t.first_offset # tree.first_offset
                        /\ o.t.first_offset = o.pg.cnt

\* The pairs of the slots of a leaf, keys trimmed.
PairsOf(n) ==
    [i \in 1..Len(n.page.data.pairs) |->
        KeyValuePair(Trim(n.page.data.pairs[i][1]), n.page.data.pairs[i][2])]

\* C30: a split of a leaf whose sorted pairs are p, with mid = Len(p) / 2,
\* leaves the pairs before mid in the left leaf and the pairs from mid on
\* in the right one, the mid key is the key of the pair at mid, and each
\* leaf's pair count is the number of its pairs.
SplitExact ==
    (ret.res \notin Stopped /\ node.node_type = "Leaf" /\ pager # NoPager) =>
    \A q \in Quota1 :
        LET kv == get_key_value_pairs(node)
            s == Node_split(node, pager, Self, q)
        IN (kv.res = "Ok" /\ s.res = "Ok") =>
            LET p == sort(kv.data)
                mid == Len(p) \div 2
            IN  /\ PairsOf(s.data.left) = SubSeq(p, 1, mid)
                /\ PairsOf(s.n) = SubSeq(p, mid + 1, Len(p))
                /\ s.data.mid_key = p[mid + 1].key
                /\ get_keys_len(s.data.left).data = mid
                /\ get_keys_len(s.n).data = Len(p) - mid

\* C28: at an internal node none of whose keys is k or more, the insert of
\* k replaces the node's last key by k and leaves the other keys and the
\* children as they were, the last child being the one it goes on with.
Widened ==
    (ret.res \notin Stopped /\ node.node_type = "Internal") =>
    \A k \in NodeKeys, r \in Relock :
        LET keys == get_keys(node).data
            w == widen(node, keys, k, "read", r)
        IN (\A i \in 1..Len(keys) : StrLess(keys[i], k)) =>
            /\ w.res = "Ok"
            /\ get_keys(w.n).data = [keys EXCEPT ![Len(keys)] = k]
            /\ get_children(w.n).data = get_children(node).data

\* C39: a flush, flush_file or flush_all that returns Ok leaves the cached
\* pages, the LRU order of their times, the CLOCK access bits and the cursor
\* as they were.
FlushFrame ==
    ret.res \notin Stopped =>
    \A f \in FileNames, p \in PageNums, q \in Quota :
    \A o \in {flush(Self, f, p, q), flush_file(Self, f, q), flush_all(Self, q)} :
        o.res = "Ok" =>
            /\ (IF policy = "LRU" THEN TimeRank(o.b.list) ELSE o.b.list) = list
            /\ o.b.cur = cur

\* The page count a file of count n ends with when it is doubled until the
\* next doubling is out of size.
RECURSIVE Doubled(_)
Doubled(n) ==
    IF OutOfSize(2 * n) THEN n ELSE Doubled(INIT_FILE_PAGE_NUM + 2 * n)

\* C33: insert_bytes returns for every length, also one no page can hold:
\* with a Position in a page the file has, or with PageNumOutOfSize once
\* the next doubling of the file is out of size; PAGE_SIZE bytes or more
\* end with PageNumOutOfSize and the file doubled as far as it goes.
InsertBytesEnds ==
    ret.res \notin Stopped =>
    \A len \in Lens \cup {PAGE_SIZE + MaxLen}, v \in 1..MaxData :
        LET o == insert_bytes(Self, TestFile, len, v) IN
        IF TestFile \notin DOMAIN file THEN o.res = "FileNotFound"
        ELSE /\ o.res \in {"Ok", "PageNumOutOfSize"}
             /\ o.res = "Ok" =>
                    /\ len < PAGE_SIZE
                    /\ o.data.page_num < o.b.file[TestFile].page_num
             /\ o.res # "Ok" =>
                    /\ OutOfSize(2 * o.b.file[TestFile].page_num)
                    /\ o.b.file[TestFile].page_num = Doubled(file[TestFile].page_num)
             /\ len >= PAGE_SIZE => o.res = "PageNumOutOfSize"

\* A file that an insert_bytes of too many bytes has doubled from its first
\* size to the last one, no record in it.
InsertBytesEndsWitness ==
    /\ TestFile \in DOMAIN file
    /\ file[TestFile].page_num = Doubled(INIT_FILE_PAGE_NUM)
    /\ file[TestFile].page_num > INIT_FILE_PAGE_NUM
    /\ Ranges(file[TestFile].pages) = 0

\* read_bytes(pos, size) (the same statements in both implementations): the
\* stored page count is compared with pos.page_num + INIT_FILE_PAGE_NUM, the
\* u32 at byte (1 + INIT_FILE_PAGE_NUM + pos.page_num) * 32 with the offset,
\* then the page pos.page_num pages after the header is read whole and the
\* bytes from pos.offset to pos.offset + size are returned; a range that
\* passes the end of the page panics.
read_bytes(b, position, size) ==
    IF position.file_name \notin DOMAIN b.file THEN Done(b, "FileNotFound", NoData)
    ELSE LET fl == b.file[position.file_name]
             res == Entry(fl, position.page_num + 1)
         IN
    IF position.page_num + INIT_FILE_PAGE_NUM > fl.page_num
    THEN Done(b, "PageNumOutOfSize", NoData)
    ELSE IF res + position.offset > PAGE_SIZE THEN Done(b, "UnexpectedError", NoData)
    ELSE IF position.page_num + 1 > Len(fl.pages) THEN Done(b, "UnexpectedError", NoData)
    ELSE IF position.offset + size > PAGE_SIZE THEN Done(b, "panic", NoData)
    ELSE Done(b, "Ok", Slice(fl.pages[position.page_num + 1], position.offset, size))

\* C34: the bytes of a successful insert_bytes are what read_bytes returns
\* for the Position and the length of that call, whatever the file already
\* holds: records before it in the page, pages added by doubling.
ReadBack ==
    ret.res \notin Stopped =>
    \A len \in Lens, v \in 1..MaxData :
        LET o == insert_bytes(Self, TestFile, len, v)
            r == read_bytes(o.b, o.data, len)
        IN o.res = "Ok" => r.res = "Ok" /\ r.data = <<<<0, len, v>>>>

\* C40: bytes that insert_bytes places in a page whose copy is in the cache
\* are in the page the next get_page of that page returns, and they are in
\* the file after a flush of that page.
CacheCoherent ==
    ret.res \notin Stopped =>
    \A f \in DOMAIN file, v \in 1..MaxData :
        LET o1 == insert_bytes(Self, f, MaxLen, v)
            p == o1.data.page_num + 1
            g1 == get_page(o1.b, f, p, 1)
            o2 == insert_bytes(g1.b, f, MaxLen, v)
            g2 == get_page(o2.b, f, p, 1)
            w == flush(g2.b, f, p, 1)
        IN (/\ o1.res = "Ok" /\ g1.res = "Ok" /\ o2.res = "Ok"
            /\ o2.data.page_num = o1.data.page_num
            /\ g2.res = "Ok" /\ w.res = "Ok")
           => /\ Slice(g2.data, o2.data.offset, MaxLen) = <<<<0, MaxLen, v>>>>
              /\ Slice(w.b.file[f].pages[p], o2.data.offset, MaxLen)
                    = <<<<0, MaxLen, v>>>>

\* C36: a get_new_page or a Pager::fill_up_to that returns an error leaves
\* the Pager's cnt, max_size and remain_size as they were before the call.
FailedAllocation ==
    (ret.res \notin Stopped /\ pager # NoPager) =>
    \A q \in Quota1, n \in FillNums :
    \A o \in {get_new_page(pager, Self, q), Pager_fill_up_to(pager, Self, n)} :
        o.res \notin {"Ok"} \cup Stopped => o.pg = pager

\* C35: the page a get_new_page has handed out is not the page a following
\* insert_value on the same Pager places its record in.
NodePageKept ==
    (ret.res \notin Stopped /\ pager # NoPager) =>
    \A q \in Quota1, len \in PagerLens :
        LET n == get_new_page(pager, Self, q)
            o == insert_value(n.pg, n.b, len, 1, q)
        IN (n.res = "Ok" /\ o.res = "Ok") =>
                o.data \div PAGE_SIZE + 1 # n.data.page_num

\* search_range with a left key.  The pairs of the leaf that holds the
\* right key, sorted, up to the first one whose key is after it.
UpTo(kvs, right_key) ==
    LET I == {i \in 1..Len(kvs) : StrLess(right_key, kvs[i].key)}
    IN IF I = {} THEN kvs ELSE SubSeq(kvs, 1, Min(I) - 1)

\* The walk from the leaf at next_node_offset on: a leaf one of whose keys
\* is the right key ends it with its pairs up to that key, every other leaf
\* gives all its pairs and the walk goes on at its next leaf, unless that
\* is 0.
RECURSIVE WalkTo(_, _, _, _, _, _)
WalkToOn(to, raw_right_key, res, pg, b, q) ==
    IF to = 0 THEN PDone(pg, b, "Ok", res)
    ELSE WalkTo(to, raw_right_key, res, pg, b, q)

WalkToNode(n, ks, kvs, raw_right_key, res, pg, b, q) ==
    IF n.res # "Ok" THEN PDone(pg, b, n.res, <<>>)
    ELSE IF raw_right_key # NoPair /\ ks.res # "Ok" THEN PDone(pg, b, ks.res, <<>>)
    ELSE IF kvs.res # "Ok" THEN PDone(pg, b, kvs.res, <<>>)
    ELSE IF /\ raw_right_key # NoPair
            /\ \E i \in 1..Len(ks.data) : ks.data[i] = raw_right_key[1]
    THEN PDone(pg, b, "Ok", res \o UpTo(sort(kvs.data), raw_right_key[1]))
    ELSE WalkToOn(next_leaf(n.n), raw_right_key, res \o kvs.data, pg, b, q)

WalkToPage(g, offset, raw_right_key, res, q) ==
    IF g.res # "Ok" THEN PDone(g.pg, g.b, "panic", <<>>)
    ELSE Once({WalkToNode(n, get_keys(n.n), get_key_value_pairs(n.n),
                          raw_right_key, res, g.pg, g.b, q) :
                    n \in {Node_try_from(g.data.data, offset)}})

WalkTo(next_node_offset, raw_right_key, res, pg, b, q) ==
    Once({WalkToPage(g, next_node_offset, raw_right_key, res, q) :
            g \in {Pager_get_page(pg, b, next_node_offset, q)}})

\* BTree::search_range with the left key left_key: the walk starts at the
\* leaf search_node finds the key in.
search_range_from(t, pg, b, left_key, raw_right_key, q) ==
    LET s == search_node(t.root, left_key) IN
    IF s.res # "Ok" THEN TDone(t, pg, b, s.res, <<>>)
    ELSE IF s.data = NoPair THEN TDone(t, pg, b, "KeyNotFound", <<>>)
    ELSE ScanDone(t, WalkTo(s.n.offset, raw_right_key, <<>>, pg, b, q))

\* C37: after inserts that all returned Ok, for two keys of the tree, left
\* no later than right, the scan from left to right returns Ok, the stored
\* pairs whose keys are from left to right, and each of them once.
BoundedScan ==
    (ret.res \notin Stopped /\ tree # NoTree /\ ops.clean) =>
    LET kvs == get_key_value_pairs(tree.root).data IN
    \A l \in 1..Len(kvs), r \in 1..Len(kvs) :
        ~StrLess(kvs[r].key, kvs[l].key) =>
            LET o == search_range_from(tree, pager, Self, kvs[l].key,
                                       Some(kvs[r].key), 1)
                In == {x \in Range(kvs) : /\ ~StrLess(x.key, kvs[l].key)
                                          /\ ~StrLess(kvs[r].key, x.key)}
            IN  /\ o.res = "Ok"
                /\ Range(o.data) = In
                /\ Len(o.data) = Cardinality(In)

\* The scan of the tree t with no bound returns Ok and the pairs that search
\* finds for the keys of the calls.
Agree(t, pg, b) ==
    LET o == search_range(t, pg, b, NoPair, 1)
        Hits == {k \in TreeKeys : search(t, pg, b, k).res = "Ok"}
    IN  /\ o.res = "Ok"
        /\ Range(o.data) = {search(t, pg, b, k).data : k \in Hits}

\* C38: after inserts that all returned Ok, and after one more update that
\* returns Ok, the scan with no bound returns the pairs search finds, the
\* updated pair with its new value; the scan of a tree with no pair returns
\* no pair.
ScanAgrees ==
    (ret.res \notin Stopped /\ tree # NoTree /\ ops.clean) =>
        /\ Agree(tree, pager, Self)
        /\ \A key \in TreeKeys, value \in TreeVals :
            LET u == update(tree, pager, Self, KeyValuePair(key, value)) IN
            u.res = "Ok" =>
                /\ Agree(u.t, u.pg, u.b)
                /\ KeyValuePair(key, value)
                        \in Range(search_range(u.t, u.pg, u.b, NoPair, 1).data)

\* The keys ks are in ascending order.
Ascending(ks) == \A i \in 1..(Len(ks) - 1) : StrLess(ks[i], ks[i + 1])

\* The sequence s with x put in at the index i.
PutAt(s, i, x) == SubSeq(s, 1, i - 1) \o <<x>> \o SubSeq(s, i, Len(s))

\* The index of the first key of ks that is greater than key, the index
\* after the last one when there is none.
PlaceOf(ks, key) ==
    Min({i \in 1..Len(ks) : StrLess(key, ks[i])} \cup {Len(ks) + 1})

\* C32: for an internal node of at least one child whose keys are sorted,
\* after add_key_and_left_child(key, off) the keys read back are the former
\* keys with key at the index of the first former key greater than key (at
\* the end when there is none), so they are still sorted, and the children
\* read back are the former children with off at that index, one more than
\* before.
OrderedInsert ==
    (ret.res \notin Stopped /\ node.node_type = "Internal" /\ ~NoChild(node)
        /\ Ascending(get_keys(node).data)) =>
    \A key \in SlotKeys :
        LET o == add_key_and_left_child(node, key, NewChild)
            i == PlaceOf(get_keys(node).data, Trim(key))
        IN o.res = "Ok" =>
            /\ get_keys(o.n).res = "Ok"
            /\ get_keys(o.n).data = PutAt(get_keys(node).data, i, Trim(key))
            /\ Ascending(get_keys(o.n).data)
            /\ get_children(o.n).data = PutAt(get_children(node).data, i, NewChild)
            /\ Len(get_children(o.n).data) = Len(get_children(node).data) + 1

\* C31: a split of the root that returns Ok leaves the root at its offset,
\* still the root, an internal node whose two children are the pages of the
\* new left and right nodes and whose one key is the key of the middle;
\* the two new nodes are not roots and have the root as their parent.
RootSplit ==
    (ret.res \notin Stopped /\ pager # NoPager /\ node.is_root
        /\ node.node_type \in {"Leaf", "Internal"}) =>
    \A q \in Quota1 :
        LET s == Node_split(node, pager, Self, q)
            ks == get_keys(node).data
        IN (s.res = "Ok" /\ ks # <<>>) =>
            /\ s.n.offset = node.offset
            /\ s.n.is_root /\ s.n.page.data.is_root
            /\ s.n.node_type = "Internal"
            /\ get_children(s.n).data
                    = <<(pager.cnt + 1) * PAGE_SIZE, (pager.cnt + 2) * PAGE_SIZE>>
            /\ get_keys(s.n).data = <<ks[Len(ks) \div 2 + 1]>>
            /\ \A m \in {s.data.left, s.data.right} :
                    ~m.is_root /\ m.parent_offset = node.offset


====
